---- MODULE Spec2Model ----
(***************************************************************************)
(* Verification model of the ats_OKX repository.                           *)
(*                                                                         *)
(* The repository holds two programs:                                      *)
(*   - src/src/    : the OKX bot (MainController main loop, PositionTracker,*)
(*                   OrderExecutor, RiskManager, SignalEngine);            *)
(*   - src/engine/ : the CryptoAI engine (TradingScheduler jobs,           *)
(*                   OrderManager, RiskManager, InMemoryDBManager).        *)
(*                                                                         *)
(* Units.  Prices are integers (quote currency per coin).  Percentages are *)
(* compared by cross-multiplication, so a threshold such as                *)
(* pnl_pct >= 0.008 is (close - entry) * 1000 >= 8 * entry.                *)
(***************************************************************************)
EXTENDS Integers, Sequences, FiniteSets, TLC

(***************************************************************************)
(* Exit rules of the OKX bot: SignalEngine.check_exit_signal.              *)
(***************************************************************************)

\* thresholds of check_exit_signal, in per-mille of the entry price
sl_fixed_pct == 10

sl_cap_pct == 20

tp1_pct == 8

tp2_pct == 15

tp3_pct == 25

trail_pullback_pct == 4

\* trading.max_hold_minutes default
max_hold == 60

\* Signal.quantity_pct in percent: 0.3 is 30, the dataclass default 1.0 is 100
PctPartial == 30

PctFull == 100

\* numerator of pnl_pct (the denominator is entry_price)
PnlNum(side, entry_price, close) ==
    IF side = "long" THEN close - entry_price ELSE entry_price - close

\* the local peak update of check_exit_signal
LocalPeak(side, peak_price, close) ==
    IF side = "long"
    THEN (IF close > peak_price THEN close ELSE peak_price)
    ELSE (IF close < peak_price THEN close ELSE peak_price)

\* what a handler sees when a call raised TypeError instead of returning
TypeError ==
    [signal_type |-> "TypeError", reason |-> "TypeError", quantity_pct |-> 0]

\* The Signal dataclass constructor.  Its field score has no default, so a
\* call that passes no score raises TypeError.
Signal(has_score, signal_type, reason, quantity_pct) ==
    IF has_score
    THEN [signal_type |-> signal_type, reason |-> reason,
          quantity_pct |-> quantity_pct]
    ELSE TypeError

\* the exit branches of check_exit_signal construct Signal without score
ExitSignal(reason, pct) == Signal(FALSE, "exit", reason, pct)

\* the final return of check_exit_signal passes score=0
HoldSignal == Signal(TRUE, "hold", "hold", PctFull)

\* position: entry_price, position_side, tp_stage_hit, peak_price
\* candle:   close, recent_low, recent_high (10-bar), ema_cross
\* hold_minutes: minutes since entry_time
check_exit_signal(position, candle, hold_minutes) ==
    LET side  == position.position_side
        entry == position.entry_price
        close == candle.close
        stage == position.tp_stage_hit
        num   == PnlNum(side, entry, close)
        peak  == LocalPeak(side, position.peak_price, close)
        pull  == IF side = "long" THEN peak - close ELSE close - peak
    IN  IF num * 1000 <= -(sl_fixed_pct * entry)
        THEN ExitSignal("SL", PctFull)
        ELSE IF side = "long"
                /\ (close < candle.recent_low
                    \/ close * 1000 < entry * (1000 - sl_cap_pct))
        THEN ExitSignal("SL", PctFull)
        ELSE IF side = "short"
                /\ (close > candle.recent_high
                    \/ close * 1000 > entry * (1000 + sl_cap_pct))
        THEN ExitSignal("SL", PctFull)
        ELSE IF stage < 1 /\ num * 1000 >= tp1_pct * entry
        THEN ExitSignal("TP1", PctPartial)
        ELSE IF stage < 2 /\ num * 1000 >= tp2_pct * entry
        THEN ExitSignal("TP2", PctPartial)
        ELSE IF num * 1000 >= tp3_pct * entry
        THEN ExitSignal("TP3", PctFull)
        ELSE IF stage >= 1 /\ pull * 1000 >= trail_pullback_pct * peak
        THEN ExitSignal("Trailing", PctFull)
        ELSE IF num < 0
                /\ ((side = "long" /\ candle.ema_cross = -1)
                    \/ (side = "short" /\ candle.ema_cross = 1))
        THEN ExitSignal("EMA", PctFull)
        ELSE IF hold_minutes >= max_hold /\ num <= 0
        THEN ExitSignal("Time", PctFull)
        ELSE HoldSignal

(***************************************************************************)
(* Risk rules of the CryptoAI engine: RiskManager._evaluate_position.      *)
(***************************************************************************)

\* RiskManager.__init__ defaults, in percent
stop_loss_pct == -3

take_profit_pct == 5

trailing_stop_pct == 2

max_hold_hours == 72

\* pos: avg_buy_price, highest_price (0 when the key is absent), held_hours
\*      (-1 when opened_at is absent)
evaluate_position(pos, current_price) ==
    LET avg     == pos.avg_buy_price
        num     == current_price - avg
        highest == IF pos.highest_price = 0 THEN current_price
                   ELSE pos.highest_price
    IN  IF avg <= 0 THEN "HOLD"
        ELSE IF num * 100 <= stop_loss_pct * avg THEN "STOP_LOSS"
        ELSE IF num * 100 >= take_profit_pct * avg THEN "TAKE_PROFIT"
        ELSE IF highest > avg
                /\ (highest - current_price) * 100 >= trailing_stop_pct * highest
                /\ num > 0
        THEN "TRAILING_STOP"
        ELSE IF pos.held_hours > max_hold_hours THEN "MAX_HOLD"
        ELSE "HOLD"

(***************************************************************************)
(* The OKX bot (src/src): state.                                           *)
(*                                                                         *)
(* Money is in milli-USDT, quantities in milli-coins; divisions round down *)
(* at that precision.                                                      *)
(***************************************************************************)

\* trading.pairs: one swap pair and one spot pair
PairSeq == <<"BTC/USDT:USDT", "ETH/USDT">>

Pairs == {PairSeq[i] : i \in 1..Len(PairSeq)}

\* the pairs a standardized position listing can name
SwapPairs == {"BTC/USDT:USDT", "ETH/USDT:USDT"}

AllPairs == Pairs \cup SwapPairs

Sides == {"long", "short"}

Bases == {"BTC", "ETH"}

\* pair.split("/")[0]
symbol_to_base(pair) ==
    IF pair \in {"BTC/USDT:USDT", "BTC/USDT"} THEN "BTC" ELSE "ETH"

\* ":USDT" in pair
IsSwap(pair) == pair \in SwapPairs

\* key of _paper_holdings: base for a long, "SHORT_" + base for a short
HoldKey(pair, side) == <<symbol_to_base(pair), side>>

HoldKeys == Bases \X Sides

\* keys of the exchange's position book
ExKeys == SwapPairs \X Sides

\* OrderExecutor.__init__: 10,000 USDT of simulated cash
InitialPaperBalance == 10000000

\* MainController.initialize: balance assumed when the live fetch fails
LiveFallbackBalance == 10000000

\* wallet total a successful live balance fetch reports
LiveWallet == LiveFallbackBalance

\* utils/constants.py OKX_MIN_ORDER_USDT
OKX_MIN_ORDER_USDT == 5000

\* risk.fee_rate 0.0005 as a fraction FeeNum / FeeDen
FeeNum == 5

FeeDen == 10000

\* trading.leverage default
leverage == 1

\* risk.max_daily_loss_pct 0.01, in percent
max_daily_loss == 1

\* risk.max_consecutive_losses
max_consec_losses == 2

\* calculate_position_size defaults, in percent
max_margin_pct == 20

min_avail_pct == 50

base_pct == 3

max_per_ticker_pct == 4

\* target_atr_pct 0.003, in per-mille
target_atr == 3

\* minutes a position can have been held when it is evaluated
HoldTimes == {0, 60}

\* prices a ticker or a candle close can show
MarketPrices == {985, 1000}

\* atr_pct of the last candle in per-mille (0: missing)
AtrLevels == {1}

\* quantities an exchange-side change can leave in the position book
ExQuantities == {0, 100}

\* bounds of the exploration
MaxTicks == 2

\* restarts, midnights, session changes, signals and exchange-side changes
MaxEvents == 1

VARIABLES
    prog,           \* which program runs: "bot", "engine" or "rules"
    mode,           \* trading.mode: "paper" or "live"
    running,        \* MainController.running
    pc,             \* position of main_loop
    pair_idx,       \* index of the pair main_loop processes next
    loop_count,     \* MainController._loop_count
    now,            \* loop intervals slept so far
    today,          \* wall-clock date
    in_session,     \* what is_trading_session(config) answers
    market,         \* last price (every pair trades at the same level)
    rm,             \* RiskManager fields
    positions,      \* PositionTracker._positions
    positions_file, \* data/open_positions.json
    trades,         \* the rows of the trades table of the bot's database
    paper,          \* OrderExecutor._paper_balance_usdt, _paper_holdings
    paper_file,     \* data/paper_state.json
    price_cache,    \* OrderExecutor._price_cache (0: no entry)
    exchange,       \* the exchange's position book (live mode)
    last_signal,    \* keys of _last_signal_time that name the current candle
    iter,           \* what the current loop iteration did
    calls,          \* executor calls of the last handler, with the local
                    \* state before and after each
    env             \* the events of the environment so far

botVars ==
    <<mode, running, pc, pair_idx, loop_count, now, today, in_session,
      market, rm, positions, positions_file, trades, paper, paper_file, price_cache,
      exchange, last_signal, iter, calls, env>>

\* a dict as a function on its key set
DictPut(d, k, v) == [x \in DOMAIN d \cup {k} |-> IF x = k THEN v ELSE d[x]]

DictDel(d, k) == [x \in DOMAIN d \ {k} |-> d[x]]

EmptyDict == [x \in {} |-> 0]

Max(a, b) == IF a >= b THEN a ELSE b

Min(a, b) == IF a <= b THEN a ELSE b

RECURSIVE SumOver(_, _)
SumOver(S, f) ==
    IF S = {} THEN 0
    ELSE LET x == CHOOSE y \in S : TRUE
         IN  f[x] + SumOver(S \ {x}, f)

\* last price of a pair: the ticker's last, the last candle's close
Price(pair) == market

(***************************************************************************)
(* The CryptoAI engine (src/engine): state.                                *)
(***************************************************************************)
VARIABLES
    e_mode,         \* settings.trading_mode: "paper" or "live"
    e_paused,       \* TradingScheduler.paused
    e_balance,      \* InMemoryDBManager._balance (paper cash)
    e_positions,    \* InMemoryDBManager._positions
    e_trades,       \* InMemoryDBManager._trades
    e_market,       \* current price of every coin
    e_day,          \* wall-clock date
    e_clock,        \* scheduler triggers fired so far
    e_job,          \* the last trigger: the job's id, the paused flag it
                    \* met, whether its body ran (_update_stats and what
                    \* follows), the orders it dispatched, the positions
                    \* open when it fired, the actions it evaluated, whether
                    \* its body raised, what _on_job_error added to the
                    \* job's error counter, whether an error alert went out
    e_realized      \* PnL realized by the sells of the current day

engineVars ==
    <<e_mode, e_paused, e_balance, e_positions, e_trades, e_market, e_day,
      e_clock, e_job, e_realized>>

(***************************************************************************)
(* Rule evaluation on its own: the drawn position and candle, the results. *)
(***************************************************************************)
VARIABLES x_position, x_candle, x_hold, x_signal, x_action

exitVars == <<x_position, x_candle, x_hold, x_signal, x_action>>

(***************************************************************************)
(* Two jobs of the engine running at the same time in the scheduler's      *)
(* thread pool: where each thread stands inside its order.                 *)
(***************************************************************************)
VARIABLES
    t_buy,          \* the thread of _job_execute_buy inside execute_buy
    t_sell,         \* the thread of _job_risk_check inside execute_sell
    t_start         \* the db when the two jobs fired

threadVars == <<t_buy, t_sell, t_start>>

(***************************************************************************)
(* DataFetcher.get_candles called on its own: the candle cache and the     *)
(* last call.                                                              *)
(***************************************************************************)
VARIABLES
    d_cache,        \* DataFetcher._cache: the series cached per key
    d_call          \* the last get_candles call: its key and what it returned

fetchVars == <<d_cache, d_call>>

(***************************************************************************)
(* MultiFactorScoring.score_coin called on its own: the scorer's weights   *)
(* and the last call.                                                      *)
(***************************************************************************)
VARIABLES
    s_weights,      \* MultiFactorScoring.weights, in thousandths
    s_db,           \* the rows the scorer's db holds for the coin
    s_call          \* the score_coin call: the ScoringResult it returned,
                    \* or the ValueError it raised

scoreVars == <<s_weights, s_db, s_call>>

vars ==
    <<prog, botVars, engineVars, exitVars, threadVars, fetchVars, scoreVars>>

NoSignal == [signal_type |-> "none", reason |-> "none", quantity_pct |-> 0]

NoAction == "none"

NoJob ==
    [id |-> "none", paused |-> FALSE, ran |-> FALSE, limit_hit |-> FALSE,
     orders |-> <<>>, actions |-> <<>>, open |-> {}, failed |-> FALSE,
     errors |-> 0, alerted |-> FALSE]

\* the programs that do not run keep these values
BotIdle ==
    /\ mode = "paper"
    /\ running = FALSE
    /\ pc = "stopped"
    /\ pair_idx = 1
    /\ loop_count = 0
    /\ now = 0
    /\ today = 0
    /\ in_session = FALSE
    /\ market = 1000
    /\ rm = [daily_trades |-> 0, daily_pnl_usdt |-> 0, consecutive_losses |-> 0,
             daily_date |-> 0, is_stopped |-> FALSE, current_balance |-> 0]
    /\ positions = EmptyDict
    /\ positions_file = EmptyDict
    /\ trades = {}
    /\ paper = [usdt |-> 0, holdings |-> [k \in HoldKeys |-> 0]]
    /\ paper_file = [usdt |-> 0, holdings |-> [k \in HoldKeys |-> 0]]
    /\ price_cache = [p \in AllPairs |-> 0]
    /\ exchange = [k \in ExKeys |-> 0]
    /\ last_signal = {}
    /\ iter = [can_trade |-> FALSE, evaluated |-> {}, sync_ran |-> FALSE,
               fetch_ok |-> FALSE]
    /\ env = [events |-> 0, restarts |-> 0]

EngineIdle ==
    /\ e_mode = "paper"
    /\ e_paused = FALSE
    /\ e_balance = 0
    /\ e_positions = <<>>
    /\ e_trades = <<>>
    /\ e_market = 1000
    /\ e_day = 0
    /\ e_clock = 0
    /\ e_job = NoJob
    /\ e_realized = 0

EmptyDb == [balance |-> 0, positions |-> <<>>, trades |-> <<>>]

ThreadsIdle ==
    /\ t_buy = [pc |-> "none"]
    /\ t_sell = [pc |-> "none"]
    /\ t_start = EmptyDb

FetchIdle ==
    /\ d_cache = <<>>
    /\ d_call = [key |-> <<>>, returned |-> [none |-> TRUE]]

ScoreIdle ==
    /\ s_weights = <<>>
    /\ s_db = <<>>
    /\ s_call = [kind |-> "none"]

ExitIdle ==
    /\ x_position = [entry_price |-> 1000, position_side |-> "long",
                     tp_stage_hit |-> 0, peak_price |-> 1000]
    /\ x_candle = [close |-> 1000, recent_low |-> 1000, recent_high |-> 1000,
                   ema_cross |-> 0]
    /\ x_hold = 0
    /\ x_signal = NoSignal
    /\ x_action = NoAction

(***************************************************************************)
(* OrderExecutor.  Its state is passed as a record                         *)
(*   [usdt, holdings, file, cache, exchange]                               *)
(* and every order returns [ok, ex, price, quantity, amount_usdt,          *)
(* initial_margin, fee_usdt]; ok = FALSE stands for the None result.       *)
(* An order's io names what the outside did: whether the ticker fetch      *)
(* answered and, in live mode, how the exchange treated the order.         *)
(***************************************************************************)

Outcomes == {"filled", "rejected", "lost_reply"}

IOs == [fetch_ok : BOOLEAN, outcome : Outcomes]

Executor ==
    [usdt |-> paper.usdt, holdings |-> paper.holdings, file |-> paper_file,
     cache |-> price_cache, exchange |-> exchange]

Failure(ex) ==
    [ok |-> FALSE, ex |-> ex, price |-> 0, quantity |-> 0, amount_usdt |-> 0,
     initial_margin |-> 0, fee_usdt |-> 0]

\* amount_usdt * self.fee_rate
Fee(amount_usdt) == (amount_usdt * FeeNum) \div FeeDen

\* _save_paper_state: cash and the holdings with a positive quantity
save_paper_state(ex) ==
    [ex EXCEPT !.file = [usdt |-> ex.usdt,
                         holdings |-> [k \in HoldKeys |-> Max(0, ex.holdings[k])]]]

\* _load_paper_state: cash clamped at 0, holdings with a positive quantity
load_paper_state(file) ==
    [usdt |-> Max(0, file.usdt),
     holdings |-> [k \in HoldKeys |-> Max(0, file.holdings[k])]]

\* _safe_get_current_price: the ticker's last price, remembered in the
\* cache; the cached price when the fetch fails (0: None)
safe_get_current_price(ex, pair, fetch_ok) ==
    IF fetch_ok
    THEN [price |-> Price(pair), ex |-> [ex EXCEPT !.cache[pair] = Price(pair)]]
    ELSE [price |-> ex.cache[pair], ex |-> ex]

\* a paper open that takes the margin out of the cash as well
paper_open_debiting(ex, pair, side, amount_usdt, io) ==
    LET g      == safe_get_current_price(ex, pair, io.fetch_ok)
        margin == IF leverage > 0 THEN amount_usdt \div leverage ELSE amount_usdt
        fee    == Fee(amount_usdt)
    IN  IF g.price = 0 THEN Failure(g.ex)
        ELSE IF margin + fee > g.ex.usdt THEN Failure(g.ex)
        ELSE LET quantity == amount_usdt \div g.price
                 key      == HoldKey(pair, side)
             IN  [ok |-> TRUE,
                  ex |-> save_paper_state(
                            [g.ex EXCEPT !.usdt = @ - margin - fee,
                                         !.holdings[key] = @ + quantity]),
                  price |-> g.price, quantity |-> quantity,
                  amount_usdt |-> amount_usdt, initial_margin |-> margin,
                  fee_usdt |-> fee]

\* _paper_open_long and _paper_open_short
paper_open(ex, pair, side, amount_usdt, io) ==
    LET g      == safe_get_current_price(ex, pair, io.fetch_ok)
        margin == IF leverage > 0 THEN amount_usdt \div leverage ELSE amount_usdt
        fee    == Fee(amount_usdt)
    IN  IF g.price = 0 THEN Failure(g.ex)
        ELSE IF margin + fee > g.ex.usdt THEN Failure(g.ex)
        ELSE LET quantity == amount_usdt \div g.price
                 key      == HoldKey(pair, side)
             IN  [ok |-> TRUE,
                  ex |-> save_paper_state(
                            [g.ex EXCEPT !.usdt = @ - fee,
                                         !.holdings[key] = @ + quantity]),
                  price |-> g.price, quantity |-> quantity,
                  amount_usdt |-> amount_usdt, initial_margin |-> margin,
                  fee_usdt |-> fee]

\* the exchange's book after an order of quantity on pair/side was filled;
\* a spot order opens no position
BookAdd(book, pair, side, quantity) ==
    IF IsSwap(pair) THEN [book EXCEPT ![<<pair, side>>] = @ + quantity]
    ELSE book

BookReduce(book, pair, side, quantity) ==
    IF IsSwap(pair) THEN [book EXCEPT ![<<pair, side>>] = Max(0, @ - quantity)]
    ELSE book

\* _live_open_long and _live_open_short
live_open(ex, pair, side, amount_usdt, io) ==
    LET g == safe_get_current_price(ex, pair, io.fetch_ok)
    IN  IF g.price = 0 THEN Failure(g.ex)
        ELSE LET quantity == amount_usdt \div g.price
                 cost     == g.price * quantity
                 booked   == [g.ex EXCEPT !.exchange =
                                  BookAdd(@, pair, side, quantity)]
             IN  IF io.outcome = "rejected" THEN Failure(g.ex)
                 ELSE IF io.outcome = "lost_reply" THEN Failure(booked)
                 ELSE [ok |-> TRUE, ex |-> booked, price |-> g.price,
                       quantity |-> quantity, amount_usdt |-> cost,
                       initial_margin |-> IF leverage > 0 THEN cost \div leverage
                                          ELSE cost,
                       fee_usdt |-> Fee(cost)]

open_long(ex, pair, amount_usdt, io) ==
    IF amount_usdt < OKX_MIN_ORDER_USDT THEN Failure(ex)
    ELSE IF mode = "live" THEN live_open(ex, pair, "long", amount_usdt, io)
    ELSE paper_open(ex, pair, "long", amount_usdt, io)

open_short(ex, pair, amount_usdt, io) ==
    IF ~IsSwap(pair) THEN Failure(ex)
    ELSE IF amount_usdt < OKX_MIN_ORDER_USDT THEN Failure(ex)
    ELSE IF mode = "live" THEN live_open(ex, pair, "short", amount_usdt, io)
    ELSE paper_open(ex, pair, "short", amount_usdt, io)

\* _paper_close with the holdings settled before the price is known
paper_close_unpriced(ex, pair, quantity, side, io) ==
    LET g   == safe_get_current_price(ex, pair, io.fetch_ok)
        key == HoldKey(pair, side)
        settled == save_paper_state(
                      [g.ex EXCEPT !.holdings[key] = Max(0, @ - quantity)])
    IN  IF g.price = 0 THEN Failure(settled)
        ELSE LET amount_usdt == quantity * g.price
                 fee         == Fee(amount_usdt)
             IN  [ok |-> TRUE,
                  ex |-> save_paper_state([settled EXCEPT !.usdt = @ - fee]),
                  price |-> g.price, quantity |-> quantity,
                  amount_usdt |-> amount_usdt, initial_margin |-> 0,
                  fee_usdt |-> fee]

\* _paper_close
paper_close(ex, pair, quantity, side, io) ==
    LET g == safe_get_current_price(ex, pair, io.fetch_ok)
    IN  IF g.price = 0 THEN Failure(g.ex)
        ELSE LET amount_usdt == quantity * g.price
                 fee         == Fee(amount_usdt)
                 key         == HoldKey(pair, side)
             IN  [ok |-> TRUE,
                  ex |-> save_paper_state(
                            [g.ex EXCEPT !.holdings[key] = Max(0, @ - quantity),
                                         !.usdt = @ - fee]),
                  price |-> g.price, quantity |-> quantity,
                  amount_usdt |-> amount_usdt, initial_margin |-> 0,
                  fee_usdt |-> fee]

\* _live_close: no ticker fetch, the order's average price is the fill price
live_close(ex, pair, quantity, side, io) ==
    LET cost   == Price(pair) * quantity
        booked == [ex EXCEPT !.exchange = BookReduce(@, pair, side, quantity)]
    IN  IF io.outcome = "rejected" THEN Failure(ex)
        ELSE IF io.outcome = "lost_reply" THEN Failure(booked)
        ELSE [ok |-> TRUE, ex |-> booked, price |-> Price(pair),
              quantity |-> quantity, amount_usdt |-> cost,
              initial_margin |-> 0, fee_usdt |-> Fee(cost)]

\* a close that hands the notional back to the cash
close_position_refunding(ex, pair, quantity, side, io) ==
    IF mode = "live" THEN live_close(ex, pair, quantity, side, io)
    ELSE LET r == paper_close(ex, pair, quantity, side, io)
         IN  IF r.ok
             THEN [r EXCEPT !.ex = save_paper_state(
                                     [r.ex EXCEPT !.usdt = @ + r.amount_usdt])]
             ELSE r

close_position(ex, pair, quantity, side, io) ==
    IF mode = "live" THEN live_close(ex, pair, quantity, side, io)
    ELSE paper_close(ex, pair, quantity, side, io)

\* add_paper_pnl
add_paper_pnl(ex, pnl_usdt) ==
    IF mode = "paper" THEN save_paper_state([ex EXCEPT !.usdt = @ + pnl_usdt])
    ELSE ex

\* get_all_positions_standardized as the set of [pair, side, qty] it lists:
\* in live mode the exchange's positions with contracts > 0, or nothing when
\* fetch_positions raises; in paper mode every holding with qty > 0, named
\* base + "/USDT:USDT"
get_all_positions_standardized(ex, fetch_ok) ==
    IF mode = "live"
    THEN IF fetch_ok
         THEN {[pair |-> k[1], side |-> k[2], qty |-> ex.exchange[k]] :
                  k \in {j \in ExKeys : ex.exchange[j] > 0}}
         ELSE {}
    ELSE {[pair |-> IF k[1] = "BTC" THEN "BTC/USDT:USDT" ELSE "ETH/USDT:USDT",
           side |-> k[2], qty |-> ex.holdings[k]] :
             k \in {j \in HoldKeys : ex.holdings[j] > 0}}


\* notionals an open can be called with: the minimum, one below it, a
\* usual size, all of the initial cash and more than it
OpenAmounts ==
    {OKX_MIN_ORDER_USDT - 1, OKX_MIN_ORDER_USDT, 1000000, InitialPaperBalance,
     InitialPaperBalance + 1}

\* open_long / open_short called on the wallet as it is now
OpenCalled(pair, side, amount_usdt, io) ==
    IF side = "long" THEN open_long(Executor, pair, amount_usdt, io)
    ELSE open_short(Executor, pair, amount_usdt, io)
(***************************************************************************)
(* PositionTracker, RiskManager and the handlers of MainController.        *)
(* A handler maps a bundle                                                 *)
(*   [positions, pfile, trades, ex, rm, last_signal, iter, calls]          *)
(* to the bundle it leaves behind.                                         *)
(***************************************************************************)

Bundle ==
    [positions |-> positions, pfile |-> positions_file, trades |-> trades,
     ex |-> Executor,
     rm |-> rm, last_signal |-> last_signal, iter |-> iter, calls |-> <<>>]

\* the local state an executor call may touch
Local(b) ==
    [usdt |-> b.ex.usdt, holdings |-> b.ex.holdings, paper_file |-> b.ex.file,
     positions |-> b.positions, positions_file |-> b.pfile]

\* one executor call in the log of a handler
Logged(b, op, pair, side, quantity, ok, before) ==
    [b EXCEPT !.calls = Append(@, [op |-> op, pair |-> pair, side |-> side,
                                   quantity |-> quantity, ok |-> ok,
                                   pre |-> Local(before), post |-> Local(b)])]

\* generate_trade_id: an id no earlier order of the process or of the
\* database has (the time of the call, to the microsecond)
generate_trade_id(rows) == Cardinality(rows) + 1

\* TradeLogger.save_trade: INSERT OR REPLACE on the UNIQUE trade_id, the
\* row that had the id is deleted.  Of a row the model keeps trade_id, pair
\* and whether the exit columns (exit_price, exit_time, exit_reason) are
\* filled.
save_trade(rows, trade) ==
    {r \in rows : r.trade_id # trade.trade_id} \cup {trade}

\* open_position with the write of the file left out
pt_open_position_unsaved(b, pair, trade, side, trade_id) ==
    LET rec == [trade_id |-> trade_id,
                entry_price |-> trade.price,
                quantity |-> trade.quantity,
                initial_quantity |-> trade.quantity,
                initial_margin |-> trade.initial_margin,
                position_side |-> side,
                peak_price |-> trade.price,
                tp_stage_hit |-> 0,
                trailing_active |-> FALSE]
    IN  [b EXCEPT !.positions = DictPut(b.positions, pair, rec)]

\* PositionTracker.open_position, with its _save_positions
pt_open_position(b, pair, trade, side, trade_id) ==
    LET rec == [trade_id |-> trade_id,
                entry_price |-> trade.price,
                quantity |-> trade.quantity,
                initial_quantity |-> trade.quantity,
                initial_margin |-> trade.initial_margin,
                position_side |-> side,
                peak_price |-> trade.price,
                tp_stage_hit |-> 0,
                trailing_active |-> FALSE]
        all == DictPut(b.positions, pair, rec)
    IN  [b EXCEPT !.positions = all, !.pfile = all]

\* update_position with the stage left out of the updates
pt_update_position_unstaged(b, pair, rec) ==
    IF pair \in DOMAIN b.positions
    THEN LET kept == [rec EXCEPT !.tp_stage_hit = b.positions[pair].tp_stage_hit]
             all  == DictPut(b.positions, pair, kept)
         IN  [b EXCEPT !.positions = all, !.pfile = all]
    ELSE b

\* PositionTracker.update_position, with its _save_positions
pt_update_position(b, pair, rec) ==
    IF pair \in DOMAIN b.positions
    THEN LET all == DictPut(b.positions, pair, rec)
         IN  [b EXCEPT !.positions = all, !.pfile = all]
    ELSE b

\* PositionTracker.close_position, with its _save_positions
pt_close_position(b, pair) ==
    IF pair \in DOMAIN b.positions
    THEN LET all == DictDel(b.positions, pair)
         IN  [b EXCEPT !.positions = all, !.pfile = all]
    ELSE b

\* PositionTracker._load_positions: every record of the file rebuilt field
\* by field, unvalidated
load_positions(file) ==
    [pair \in DOMAIN file |->
        LET pos == file[pair]
        IN  [trade_id |-> pos.trade_id,
             entry_price |-> pos.entry_price,
             quantity |-> pos.quantity,
             initial_quantity |-> pos.initial_quantity,
             initial_margin |-> pos.initial_margin,
             position_side |-> pos.position_side,
             peak_price |-> pos.peak_price,
             tp_stage_hit |-> pos.tp_stage_hit,
             trailing_active |-> pos.trailing_active]]

\* PositionTracker.get_unrealized_pnl, the pnl_usdt of one position
unrealized_pnl(pos, price) ==
    IF pos.position_side = "long"
    THEN (price - pos.entry_price) * pos.quantity
    ELSE (pos.entry_price - price) * pos.quantity

\* RiskManager.__init__
NewRiskManager(balance) ==
    [daily_trades |-> 0, daily_pnl_usdt |-> 0, consecutive_losses |-> 0,
     daily_date |-> today, is_stopped |-> FALSE, current_balance |-> balance]

\* RiskManager._check_daily_reset
check_daily_reset(r) ==
    IF today # r.daily_date
    THEN [r EXCEPT !.daily_trades = 0, !.daily_pnl_usdt = 0,
                   !.consecutive_losses = 0, !.daily_date = today,
                   !.is_stopped = FALSE]
    ELSE r

\* RiskManager.can_trade: the answer and the RiskManager it leaves
can_trade(r0) ==
    LET r == check_daily_reset(r0)
    IN  IF r.is_stopped THEN [ok |-> FALSE, rm |-> r]
        ELSE IF r.daily_pnl_usdt * 100 <= -(r.current_balance * max_daily_loss)
        THEN [ok |-> FALSE, rm |-> [r EXCEPT !.is_stopped = TRUE]]
        ELSE IF r.consecutive_losses >= max_consec_losses
        THEN [ok |-> FALSE, rm |-> [r EXCEPT !.is_stopped = TRUE]]
        ELSE [ok |-> TRUE, rm |-> r]

\* record_trade_result that keeps the streak on a win
record_trade_result_sticky(r, pnl_usdt, is_win) ==
    [r EXCEPT !.daily_trades = @ + 1,
              !.daily_pnl_usdt = @ + pnl_usdt,
              !.consecutive_losses = IF is_win THEN @ ELSE @ + 1,
              !.current_balance = @ + pnl_usdt]

\* RiskManager.record_trade_result
record_trade_result(r, pnl_usdt, is_win) ==
    [r EXCEPT !.daily_trades = @ + 1,
              !.daily_pnl_usdt = @ + pnl_usdt,
              !.consecutive_losses = IF is_win THEN 0 ELSE @ + 1,
              !.current_balance = @ + pnl_usdt]

\* RiskManager.emergency_stop
emergency_stop(r) == [r EXCEPT !.is_stopped = TRUE]

\* RiskManager.calculate_position_size: [ok, amount]; ok = FALSE is None.
\* atr is the candle's atr_pct in per-mille, 0 when missing.
calculate_position_size(total_equity, available_balance, total_used_margin, atr) ==
    LET scaled == (total_equity * base_pct * target_atr) \div (100 * Max(atr, 1))
        capped == (total_equity * max_per_ticker_pct) \div 100
        margin_usdt ==
            IF atr > 0
            THEN (IF base_pct * target_atr > max_per_ticker_pct * atr
                  THEN capped ELSE scaled)
            ELSE (total_equity * base_pct) \div 100
        notional_usdt == margin_usdt * leverage
    IN  IF total_used_margin * 100 > total_equity * max_margin_pct
        THEN [ok |-> FALSE, amount |-> 0]
        ELSE IF available_balance * 100 < total_equity * min_avail_pct
        THEN [ok |-> FALSE, amount |-> 0]
        ELSE IF notional_usdt < OKX_MIN_ORDER_USDT
        THEN [ok |-> FALSE, amount |-> 0]
        ELSE [ok |-> TRUE, amount |-> notional_usdt]

\* _get_wallet_balance_usdt: the simulated cash, or the exchange's wallet
\* total (0 when the live fetch fails)
wallet_balance(b, fetch_ok) ==
    IF mode = "paper" THEN b.ex.usdt
    ELSE IF fetch_ok THEN LiveWallet ELSE 0

\* _sync_risk_manager_balance, RiskManager.update_balance
sync_risk_manager_balance(b, fetch_ok) ==
    [b EXCEPT !.rm.current_balance = wallet_balance(b, fetch_ok)]

\* _collect_balance_snapshot: cash, equity and used margin of the positions
\* PositionTracker manages
collect_balance_snapshot(b, fetch_ok) ==
    LET wallet == wallet_balance(b, fetch_ok)
        held   == DOMAIN b.positions
        pnl    == [p \in held |-> unrealized_pnl(b.positions[p], Price(p))]
        margin == [p \in held |-> b.positions[p].initial_margin]
    IN  [cash_usdt |-> wallet,
         total_value_usdt |-> wallet + SumOver(held, pnl),
         total_used_margin |-> SumOver(held, margin)]

\* what the market data of one pair shows in one iteration
\* (held: the minutes since the position's entry_time, read off the wall
\* clock)
Candles ==
    [ok : BOOLEAN, recent_low : MarketPrices, recent_high : MarketPrices,
     ema_cross : {-1, 0, 1}, held : HoldTimes, atr : AtrLevels,
     long_ok : BOOLEAN, short_ok : BOOLEAN]

\* the balance fetches of one handler (live mode): for the snapshot and for
\* the RiskManager synchronisation
Fetches == [snapshot_ok : BOOLEAN, sync_ok : BOOLEAN]

\* trading.market_type default
market_type == "swap"

\* MainController._execute_open
execute_open(b, pair, position_side, atr, io, bal) ==
    LET snapshot == collect_balance_snapshot(b, bal.snapshot_ok)
        size     == calculate_position_size(snapshot.total_value_usdt,
                                            snapshot.cash_usdt,
                                            snapshot.total_used_margin, atr)
        adjusted == size.amount * 100 > snapshot.cash_usdt * 99
        amount_usdt ==
            IF adjusted THEN (snapshot.cash_usdt * 99) \div 100 ELSE size.amount
    IN  IF ~size.ok THEN b
        ELSE IF adjusted /\ amount_usdt < OKX_MIN_ORDER_USDT THEN b
        ELSE LET trade == IF position_side = "long"
                          THEN open_long(b.ex, pair, amount_usdt, io)
                          ELSE open_short(b.ex, pair, amount_usdt, io)
                 called == [b EXCEPT !.ex = trade.ex]
                 op     == IF position_side = "long" THEN "open_long"
                           ELSE "open_short"
             IN  IF ~trade.ok
                 THEN Logged(called, op, pair, position_side, 0, FALSE, b)
                 ELSE
                 LET trade_id == generate_trade_id(b.trades)
                     tracked  == pt_open_position(called, pair, trade,
                                                  position_side, trade_id)
                     saved    ==
                        [tracked EXCEPT !.trades =
                            save_trade(@, [trade_id |-> trade_id, pair |-> pair,
                                           exited |-> FALSE])]
                 IN  Logged(sync_risk_manager_balance(saved, bal.sync_ok),
                            op, pair, position_side, trade.quantity, TRUE, b)

\* is_full_close reduced to its quantity_pct test
IsFullCloseByPct(qty_to_close, full_quantity, quantity_pct) ==
    quantity_pct >= PctFull

\* is_full_close of _execute_close
IsFullClose(qty_to_close, full_quantity, quantity_pct) ==
    qty_to_close >= full_quantity \/ quantity_pct >= PctFull

\* MainController._execute_close
execute_close(b, pair, exit_reason, quantity_pct, io, bal) ==
    LET position      == b.positions[pair]
        full_quantity == position.quantity
        initial_qty   == position.initial_quantity
        qty_to_close  ==
            IF quantity_pct >= PctFull THEN full_quantity
            ELSE Min((initial_qty * quantity_pct) \div 100, full_quantity)
        entry_price   == position.entry_price
        position_side == position.position_side
        trade  == close_position(b.ex, pair, qty_to_close, position_side, io)
        called == [b EXCEPT !.ex = trade.ex]
    IN  IF ~trade.ok
        THEN Logged(called, "close", pair, position_side, qty_to_close, FALSE, b)
        ELSE
        LET diff  == PnlNum(position_side, entry_price, trade.price)
            gross_pnl_usdt == diff * qty_to_close
            paid  == [called EXCEPT !.ex = add_paper_pnl(@, gross_pnl_usdt)]
            pnl_usdt == gross_pnl_usdt - trade.fee_usdt
                            - Fee(entry_price * qty_to_close)
            current_stage == position.tp_stage_hit
            updated ==
                [position EXCEPT
                    !.quantity = full_quantity - qty_to_close,
                    !.tp_stage_hit =
                        IF exit_reason = "TP1" THEN Max(current_stage, 1)
                        ELSE IF exit_reason = "TP2" THEN Max(current_stage, 2)
                        ELSE @,
                    !.trailing_active = TRUE]
            tracked ==
                IF IsFullClose(qty_to_close, full_quantity, quantity_pct)
                THEN pt_close_position(paid, pair)
                ELSE pt_update_position(paid, pair, updated)
            recorded ==
                [tracked EXCEPT
                    !.rm = record_trade_result(@, pnl_usdt, diff >= 0)]
            synced == sync_risk_manager_balance(recorded, bal.sync_ok)
            saved  ==
                [synced EXCEPT !.trades =
                    save_trade(@, [trade_id |-> position.trade_id,
                                   pair |-> pair, exited |-> TRUE])]
        IN  Logged(saved, "close", pair, position_side, qty_to_close, TRUE, b)

\* _process_pair with the peak price left as it was
update_peak_price_skipped(b, pair, close) == b

\* _process_pair, the peak price update before the exit check: a long's
\* peak follows a higher close, a short's a lower one
update_peak_price(b, pair, close) ==
    LET held  == b.positions[pair]
        moved == IF held.position_side = "long"
                 THEN close > held.peak_price
                 ELSE close < held.peak_price
    IN  IF moved
        THEN pt_update_position(b, pair, [held EXCEPT !.peak_price = close])
        ELSE b

\* MainController._process_pair: its try block; an exception raised inside
\* (the TypeError of check_exit_signal) ends the handler where it stands
process_pair(b, pair, cd, io, bal) ==
    IF ~cd.ok THEN b
    ELSE IF pair \in DOMAIN b.positions
    THEN
        LET close  == Price(pair)
            peaked == update_peak_price(b, pair, close)
            position == peaked.positions[pair]
            exit_signal ==
                check_exit_signal(
                    position,
                    [close |-> close, recent_low |-> Min(cd.recent_low, close),
                     recent_high |-> Max(cd.recent_high, close),
                     ema_cross |-> cd.ema_cross],
                    cd.held)
            seen == [peaked EXCEPT !.iter.evaluated = @ \cup {pair}]
        IN  IF exit_signal = TypeError THEN seen
            ELSE IF exit_signal.signal_type = "exit"
            THEN execute_close(seen, pair, exit_signal.reason,
                               exit_signal.quantity_pct, io, bal)
            ELSE seen
    ELSE
        LET long_key   == <<pair, "long">>
            short_key  == <<pair, "short">>
            long_fire  == cd.long_ok /\ long_key \notin b.last_signal
            after_long == IF long_fire
                          THEN [b EXCEPT !.last_signal = @ \cup {long_key}]
                          ELSE b
            short_fire == cd.short_ok /\ short_key \notin b.last_signal
            after_short == IF short_fire
                           THEN [after_long EXCEPT
                                    !.last_signal = @ \cup {short_key}]
                           ELSE after_long
        IN  IF long_fire
            THEN execute_open(after_long, pair, "long", cd.atr, io, bal)
            ELSE IF market_type \in {"swap", "both"}
            THEN (IF short_fire
                  THEN execute_open(after_short, pair, "short", cd.atr, io, bal)
                  ELSE after_short)
            ELSE after_long

\* the reconciler's test reduced to the pair, the side unread
IsUnmanagedByPair(db_positions, ex_pos) ==
    ex_pos.pair \notin DOMAIN db_positions

\* the reconciler's test for a listed position nobody manages
IsUnmanaged(db_positions, ex_pos) ==
    \/ ex_pos.pair \notin DOMAIN db_positions
    \/ db_positions[ex_pos.pair].position_side # ex_pos.side

\* the order in which a listing is walked
ListingOrder ==
    << <<"BTC/USDT:USDT", "long">>, <<"BTC/USDT:USDT", "short">>,
       <<"ETH/USDT:USDT", "long">>, <<"ETH/USDT:USDT", "short">> >>

\* pass 2 of _sync_with_exchange from entry i of the listing on: a market
\* close for every unmanaged position, the result of the order unread
RECURSIVE CloseUnmanaged(_, _, _, _, _)
CloseUnmanaged(b, listing, db_positions, ios, i) ==
    IF i > Len(ListingOrder) THEN b
    ELSE LET k    == ListingOrder[i]
             hits == {e \in listing : e.pair = k[1] /\ e.side = k[2]}
         IN  IF hits = {} THEN CloseUnmanaged(b, listing, db_positions, ios, i + 1)
             ELSE
             LET ex_pos == CHOOSE e \in hits : TRUE
             IN  IF ~IsUnmanaged(db_positions, ex_pos)
                 THEN CloseUnmanaged(b, listing, db_positions, ios, i + 1)
                 ELSE
                 LET trade == close_position(b.ex, ex_pos.pair, ex_pos.qty,
                                             ex_pos.side, ios[ex_pos.pair])
                     done  == Logged([b EXCEPT !.ex = trade.ex],
                                     "close_unmanaged", ex_pos.pair, ex_pos.side,
                                     ex_pos.qty, trade.ok, b)
                 IN  CloseUnmanaged(done, listing, db_positions, ios, i + 1)

\* pass 1 of _sync_with_exchange: a PT record is kept when the listing has
\* a position of its pair and side
HasMatch(listing, pair, db_pos) ==
    \E p \in listing : p.pair = pair /\ p.side = db_pos.position_side

\* MainController._sync_with_exchange
sync_with_exchange(b, fetch_ok, ios) ==
    LET exchange_positions == get_all_positions_standardized(b.ex, fetch_ok)
        db_positions == b.positions
        kept    == {p \in DOMAIN db_positions :
                        HasMatch(exchange_positions, p, db_positions[p])}
        evicted == [p \in kept |-> db_positions[p]]
        pass1   == IF kept = DOMAIN db_positions THEN b
                   ELSE [b EXCEPT !.positions = evicted, !.pfile = evicted]
        pass2   == CloseUnmanaged(pass1, exchange_positions, db_positions, ios, 1)
    IN  [pass2 EXCEPT !.iter.sync_ran = TRUE, !.iter.fetch_ok = fetch_ok]

(***************************************************************************)
(* The OKX bot: Init and the steps of main_loop.                           *)
(***************************************************************************)

NewIteration(ok) ==
    [can_trade |-> ok, evaluated |-> {}, sync_ran |-> FALSE, fetch_ok |-> FALSE]

\* order io a mode can meet: the paper executor sends nothing to the exchange
OrderIOs ==
    IF mode = "live" THEN IOs
    ELSE [fetch_ok : BOOLEAN, outcome : {"filled"}]

\* balance fetches a mode can meet: the paper wallet is never fetched
BalanceFetches ==
    IF mode = "live" THEN Fetches
    ELSE [snapshot_ok : {TRUE}, sync_ok : {TRUE}]

\* how one balance fetch can end
BalanceFetchOutcomes == IF mode = "live" THEN BOOLEAN ELSE {TRUE}

\* io of a close order: a live close fetches no ticker
SyncIOs ==
    IF mode = "live" THEN [fetch_ok : {TRUE}, outcome : Outcomes]
    ELSE [fetch_ok : BOOLEAN, outcome : {"filled"}]

\* the state after MainController.initialize on a fresh data directory
InitBot ==
    /\ mode \in {"paper", "live"}
    /\ running = TRUE
    /\ pc = "loop"
    /\ pair_idx = 1
    /\ loop_count = 0
    /\ now = 0
    /\ today = 0
    /\ in_session \in BOOLEAN
    /\ market \in MarketPrices
    /\ rm = [daily_trades |-> 0, daily_pnl_usdt |-> 0, consecutive_losses |-> 0,
             daily_date |-> 0, is_stopped |-> FALSE,
             current_balance |-> IF mode = "paper" THEN InitialPaperBalance
                                 ELSE LiveWallet]
    /\ positions = EmptyDict
    /\ positions_file = EmptyDict
    /\ trades = {}
    /\ paper = [usdt |-> InitialPaperBalance, holdings |-> [k \in HoldKeys |-> 0]]
    /\ paper_file = paper
    /\ price_cache = [p \in AllPairs |-> 0]
    /\ exchange = [k \in ExKeys |-> 0]
    /\ last_signal = {}
    /\ iter = NewIteration(FALSE)
    /\ calls = <<>>
    /\ env = [events |-> 0, restarts |-> 0]

\* the fields of a candle that the handler of a pair reads: the exit inputs
\* when PT holds the pair, the entry inputs when it does not
CandleInputs(pair) ==
    IF pair \in DOMAIN positions
    THEN [ok : BOOLEAN, recent_low : {Price(pair)}, recent_high : {Price(pair)},
          ema_cross : {-1, 0, 1}, held : HoldTimes, atr : {0},
          long_ok : {FALSE}, short_ok : {FALSE}]
    ELSE [ok : BOOLEAN, recent_low : {Price(pair)}, recent_high : {Price(pair)},
          ema_cross : {0}, held : {0}, atr : AtrLevels,
          long_ok : BOOLEAN, short_ok : BOOLEAN]

AllFine == [fetch_ok |-> TRUE, outcome |-> "filled"]

AllFetched == [snapshot_ok |-> TRUE, sync_ok |-> TRUE]

\* whether the listing is fetched: the paper listing reads the holdings
ListingFetches == IF mode = "live" THEN BOOLEAN ELSE {TRUE}

\* a step of the bot leaves the other programs alone
BotStep ==
    prog = "bot" /\ UNCHANGED <<prog, engineVars, exitVars, threadVars, fetchVars, scoreVars>>

\* the bundle a handler left behind becomes the state
Commit(b) ==
    /\ positions' = b.positions
    /\ positions_file' = b.pfile
    /\ trades' = b.trades
    /\ paper' = [usdt |-> b.ex.usdt, holdings |-> b.ex.holdings]
    /\ paper_file' = b.ex.file
    /\ price_cache' = b.ex.cache
    /\ exchange' = b.ex.exchange
    /\ rm' = b.rm
    /\ last_signal' = b.last_signal
    /\ iter' = b.iter
    /\ calls' = b.calls

\* main_loop, top of an iteration: the counter, can_trade(), the session
LoopTop ==
    /\ BotStep
    /\ pc = "loop"
    /\ running
    /\ now < MaxTicks
    /\ LET answer == can_trade(rm)
       IN  /\ rm' = answer.rm
           /\ iter' = NewIteration(answer.ok)
           /\ pc' = IF answer.ok /\ in_session THEN "pair" ELSE "sleep"
    /\ loop_count' = loop_count + 1
    /\ pair_idx' = 1
    /\ calls' = <<>>
    /\ UNCHANGED <<mode, running, now, today, in_session, market, positions,
                   positions_file, trades, paper, paper_file, price_cache, exchange,
                   last_signal, env>>

\* main_loop, one turn of "for pair in pairs"
ProcessPair ==
    /\ BotStep
    /\ pc = "pair"
    /\ IF ~running
       THEN /\ pc' = "sync"
            /\ UNCHANGED <<pair_idx, positions, positions_file, trades, paper,
                           paper_file, price_cache, exchange, rm, last_signal,
                           iter, calls>>
       ELSE /\ \E cd \in CandleInputs(PairSeq[pair_idx]) :
                  \* the order and balance inputs are drawn when the handler
                  \* reaches the executor
                  LET quiet == process_pair(Bundle, PairSeq[pair_idx], cd,
                                            AllFine, AllFetched)
                  IN  IF quiet.calls = <<>> THEN Commit(quiet)
                      ELSE \E io \in OrderIOs, bal \in BalanceFetches :
                              Commit(process_pair(Bundle, PairSeq[pair_idx],
                                                  cd, io, bal))
            /\ pair_idx' = IF pair_idx < Len(PairSeq) THEN pair_idx + 1 ELSE 1
            /\ pc' = IF pair_idx < Len(PairSeq) THEN "pair" ELSE "sync"
    /\ UNCHANGED <<mode, running, loop_count, now, today, in_session, market,
                   env>>

\* main_loop, the call of _sync_with_exchange
SyncWithExchange ==
    /\ BotStep
    /\ pc = "sync"
    /\ \E fetch_ok \in ListingFetches, ios \in [SwapPairs -> SyncIOs] :
          Commit(sync_with_exchange(Bundle, fetch_ok, ios))
    /\ pc' = "sleep"
    /\ UNCHANGED <<mode, running, pair_idx, loop_count, now, today, in_session,
                   market, env>>

\* main_loop, asyncio.sleep(interval): the iteration is over
Sleep ==
    /\ BotStep
    /\ pc = "sleep"
    /\ pc' = "loop"
    /\ now' = now + 1
    /\ iter' = NewIteration(FALSE)
    /\ calls' = <<>>
    /\ UNCHANGED <<mode, running, pair_idx, loop_count, today, in_session,
                   market, rm, positions, positions_file, trades, paper, paper_file,
                   price_cache, exchange, last_signal, env>>

\* _signal_handler: SIGINT or SIGTERM
SignalHandler ==
    /\ BotStep
    /\ running
    /\ pc \in {"loop", "pair", "sync", "sleep"}
    /\ env.events < MaxEvents
    /\ env' = [env EXCEPT !.events = @ + 1]
    /\ running' = FALSE
    /\ UNCHANGED <<mode, pc, pair_idx, loop_count, now, today, in_session,
                   market, rm, positions, positions_file, trades, paper, paper_file,
                   price_cache, exchange, last_signal, iter, calls>>

\* Shutdown, were it to drop the open positions on its way out
Shutdown_closing ==
    /\ BotStep
    /\ pc = "loop"
    /\ ~running
    /\ pc' = "stopped"
    /\ positions' = EmptyDict
    /\ positions_file' = EmptyDict
    /\ UNCHANGED <<mode, running, pair_idx, loop_count, now, today, in_session,
                   market, rm, trades, paper, paper_file, price_cache, exchange,
                   last_signal, iter, calls, env>>

\* "while self.running" ends and shutdown runs: no position is closed
Shutdown ==
    /\ BotStep
    /\ pc = "loop"
    /\ ~running
    /\ pc' = "stopped"
    /\ UNCHANGED <<mode, running, pair_idx, loop_count, now, today, in_session,
                   market, rm, positions, positions_file, trades, paper, paper_file,
                   price_cache, exchange, last_signal, iter, calls, env>>

\* a new process: PositionTracker and the paper wallet are rehydrated from
\* their files, everything else starts afresh
Restart ==
    /\ BotStep
    /\ pc \in {"loop", "stopped"}
    /\ env.events < MaxEvents
    /\ env' = [env EXCEPT !.events = @ + 1, !.restarts = @ + 1]
    /\ running' = TRUE
    /\ pc' = "loop"
    /\ pair_idx' = 1
    /\ loop_count' = 0
    /\ positions' = load_positions(positions_file)
    /\ paper' = IF mode = "paper" THEN load_paper_state(paper_file) ELSE paper
    /\ \E fetch_ok \in BOOLEAN :
          rm' = NewRiskManager(
                    IF mode = "paper" THEN load_paper_state(paper_file).usdt
                    ELSE IF fetch_ok THEN LiveWallet ELSE LiveFallbackBalance)
    /\ price_cache' = [p \in AllPairs |-> 0]
    /\ last_signal' = {}
    /\ iter' = NewIteration(FALSE)
    /\ calls' = <<>>
    /\ UNCHANGED <<mode, now, today, in_session, market, positions_file, trades,
                   paper_file, exchange>>

\* a candle closes: the last price moves and every remembered signal time
\* is stale
MarketMove ==
    /\ BotStep
    /\ pc = "loop"
    /\ \E m \in MarketPrices :
          /\ m # market \/ last_signal # {}
          /\ market' = m
    /\ last_signal' = {}
    /\ UNCHANGED <<mode, running, pc, pair_idx, loop_count, now, today,
                   in_session, rm, positions, positions_file, trades, paper, paper_file,
                   price_cache, exchange, iter, calls, env>>

\* midnight passes
DayRollover ==
    /\ BotStep
    /\ pc = "loop"
    /\ env.events < MaxEvents
    /\ env' = [env EXCEPT !.events = @ + 1]
    /\ today' = today + 1
    /\ UNCHANGED <<mode, running, pc, pair_idx, loop_count, now, in_session,
                   market, rm, positions, positions_file, trades, paper, paper_file,
                   price_cache, exchange, last_signal, iter, calls>>

\* a trading session opens or ends
SessionChange ==
    /\ BotStep
    /\ pc = "loop"
    /\ env.events < MaxEvents
    /\ env' = [env EXCEPT !.events = @ + 1]
    /\ in_session' = ~in_session
    /\ UNCHANGED <<mode, running, pc, pair_idx, loop_count, now, today, market,
                   rm, positions, positions_file, trades, paper, paper_file,
                   price_cache, exchange, last_signal, iter, calls>>

\* the exchange's book changes without the bot: a liquidation, a manual order
ExchangeChange ==
    /\ BotStep
    /\ pc = "loop"
    /\ mode = "live"
    /\ env.events < MaxEvents
    /\ env' = [env EXCEPT !.events = @ + 1]
    /\ \E k \in ExKeys, q \in ExQuantities :
          /\ q # exchange[k]
          /\ exchange' = [exchange EXCEPT ![k] = q]
    /\ UNCHANGED <<mode, running, pc, pair_idx, loop_count, now, today,
                   in_session, market, rm, positions, positions_file, trades, paper,
                   paper_file, price_cache, last_signal, iter, calls>>

Init ==
    prog = "bot" /\ InitBot /\ EngineIdle /\ ExitIdle /\ ThreadsIdle /\ FetchIdle
    /\ ScoreIdle

Next ==
    \/ LoopTop
    \/ ProcessPair
    \/ SyncWithExchange
    \/ Sleep
    \/ SignalHandler
    \/ Shutdown
    \/ Restart
    \/ MarketMove
    \/ DayRollover
    \/ SessionChange
    \/ ExchangeChange

Spec == Init /\ [][Next]_vars

(***************************************************************************)
(* The OKX bot with _execute_close called as check_exit_signal's callers   *)
(* are written to call it: with the reason and the quantity_pct of one of  *)
(* the exit signals.                                                       *)
(***************************************************************************)

\* <<reason, quantity_pct>> of the exit signals of check_exit_signal
ExitCalls ==
    {<<"SL", PctFull>>, <<"TP1", PctPartial>>, <<"TP2", PctPartial>>,
     <<"TP3", PctFull>>, <<"Trailing", PctFull>>, <<"EMA", PctFull>>,
     <<"Time", PctFull>>}

\* MainController._execute_close on a pair PositionTracker holds
ExecuteClose ==
    /\ BotStep
    /\ pc = "loop"
    /\ running
    /\ \E pair \in DOMAIN positions, sig \in ExitCalls :
          \E io \in SyncIOs, sync_ok \in BalanceFetchOutcomes :
             Commit(execute_close(Bundle, pair, sig[1], sig[2], io,
                                  [snapshot_ok |-> TRUE, sync_ok |-> sync_ok]))
    /\ UNCHANGED <<mode, running, pc, pair_idx, loop_count, now, today,
                   in_session, market, env>>

NextOps ==
    \/ LoopTop
    \/ ProcessPair
    \/ SyncWithExchange
    \/ Sleep
    \/ Restart
    \/ ExecuteClose

SpecOps == Init /\ [][NextOps]_vars


(***************************************************************************)
(* The RiskManager called on its own, as _execute_close and main_loop call *)
(* it: record_trade_result with a close's net PnL and its is_win (the      *)
(* sign of the price move), can_trade at the top of an iteration.          *)
(***************************************************************************)

\* closes recorded per process run in this exploration
MaxTrades == 3

\* <<pnl_usdt, is_win>> of a close: a loss, a close at the entry price
\* (pnl_pct = 0 counts as a win, the fees are lost), a gain, a loss beyond
\* the daily limit
TradeResults ==
    {<<-20000, FALSE>>, <<-500, TRUE>>, <<10000, TRUE>>, <<-120000, FALSE>>}

\* RiskManager.record_trade_result, as _execute_close calls it
RecordTradeResult ==
    /\ BotStep
    /\ pc = "loop"
    /\ running
    /\ rm.daily_trades < MaxTrades
    /\ \E res \in TradeResults : rm' = record_trade_result(rm, res[1], res[2])
    /\ UNCHANGED <<mode, running, pc, pair_idx, loop_count, now, today,
                   in_session, market, positions, positions_file, trades, paper,
                   paper_file, price_cache, exchange, last_signal, iter,
                   calls, env>>

\* RiskManager.can_trade, as main_loop calls it
CanTrade ==
    /\ BotStep
    /\ pc = "loop"
    /\ running
    /\ LET answer == can_trade(rm)
       IN  /\ rm' = answer.rm
           /\ iter' = NewIteration(answer.ok)
    /\ UNCHANGED <<mode, running, pc, pair_idx, loop_count, now, today,
                   in_session, market, positions, positions_file, trades, paper,
                   paper_file, price_cache, exchange, last_signal, calls, env>>

NextRisk ==
    \/ RecordTradeResult
    \/ CanTrade
    \/ DayRollover
    \/ Restart

SpecRisk == Init /\ [][NextRisk]_vars
(***************************************************************************)
(* The CryptoAI engine: InMemoryDBManager, OrderManager, PortfolioAllocator *)
(* A db is the record [balance, positions, trades]; positions and trades   *)
(* are lists in insertion order.  Money is in units of 10 KRW, prices in   *)
(* 10 KRW per coin, volumes in milli-coins.                                *)
(***************************************************************************)

\* TradingScheduler.target_coins (two of the default four)
CoinSeq == <<"BTC", "ETH">>

Coins == {CoinSeq[i] : i \in 1..Len(CoinSeq)}

\* InMemoryDBManager.__init__ initial_balance: 1,000,000 KRW
InitialBalanceKrw == 100000

\* KRW the Upbit account reports in live mode
UpbitKrw == InitialBalanceKrw

\* OrderManager.MIN_ORDER_AMOUNT: 5,000 KRW
MIN_ORDER_AMOUNT == 500

\* _job_execute_buy: below 10,000 KRW of cash no buy is attempted
MinCashKrw == 1000

\* RiskManager daily_loss_limit_pct default
daily_loss_limit_pct == -5

\* prices a coin can show
EnginePrices == {900, 1000}

\* hours a position can have been held when it is checked
EngineHoldHours == {0, 73}

\* how Upbit treats a live order
UpbitOutcomes == {"filled", "rejected"}

EngineIOs == [fetch_ok : BOOLEAN, outcome : UpbitOutcomes]

Db == [balance |-> e_balance, positions |-> e_positions, trades |-> e_trades]

\* round(n / d) of Python: to the nearest integer, ties to the even one
RoundDiv(n, d) ==
    LET q == n \div d
        r == n % d
    IN  IF 2 * r < d THEN q
        ELSE IF 2 * r > d THEN q + 1
        ELSE IF q % 2 = 0 THEN q ELSE q + 1

\* InMemoryDBManager.insert_trade_order (filled_at: the day, -1 when the
\* record has no filled_at)
insert_trade_order(db, symbol, order_type, status, filled_at) ==
    [db EXCEPT !.trades =
        Append(@, [id |-> Len(@) + 1, symbol |-> symbol,
                   order_type |-> order_type, status |-> status,
                   filled_at |-> filled_at])]

\* InMemoryDBManager.upsert_position: an existing record of the symbol is
\* overwritten with the new order's price and volume
upsert_position(db, position) ==
    IF \E i \in 1..Len(db.positions) : db.positions[i].symbol = position.symbol
    THEN [db EXCEPT !.positions =
            [i \in 1..Len(@) |->
                IF @[i].symbol = position.symbol THEN position ELSE @[i]]]
    ELSE [db EXCEPT !.positions = Append(@, position)]

\* InMemoryDBManager.close_position
db_close_position(db, symbol) ==
    LET Other(p) == p.symbol # symbol
    IN  [db EXCEPT !.positions = SelectSeq(@, Other)]

\* InMemoryDBManager.update_paper_balance
update_paper_balance(db, delta_krw) == [db EXCEPT !.balance = @ + delta_krw]

\* InMemoryDBManager.get_today_trades
get_today_trades(db) ==
    LET Today(t) == t.filled_at = e_day
    IN  SelectSeq(db.trades, Today)

\* t.get("pnl_krw", 0): no trade record carries the key
trade_pnl_krw(t) == 0

\* OrderManager._is_paper_mode
is_paper_mode == e_mode # "live"

\* OrderManager.get_current_price: 0 stands for None
get_current_price(fetch_ok) == IF fetch_ok THEN e_market ELSE 0

\* the result of an order: [success, db, price, volume, total_krw]
OrderFailure(db) ==
    [success |-> FALSE, db |-> db, price |-> 0, volume |-> 0, total_krw |-> 0]

\* OrderManager._save_failed_order
save_failed_order(db, symbol, side) ==
    insert_trade_order(db, symbol, side, "FAILED", -1)

\* OrderManager.execute_buy with _paper_buy and _live_buy; limit_price 0 is
\* None
execute_buy(db, symbol, amount, order_type, limit_price, io) ==
    IF amount < MIN_ORDER_AMOUNT THEN OrderFailure(db)
    ELSE IF order_type = "LIMIT" /\ limit_price = 0 THEN OrderFailure(db)
    ELSE
    LET exec_price == IF limit_price # 0 THEN limit_price
                      ELSE IF is_paper_mode THEN get_current_price(io.fetch_ok)
                      ELSE e_market
        raised == IF is_paper_mode THEN exec_price <= 0
                  ELSE io.outcome = "rejected"
    IN  IF raised THEN OrderFailure(save_failed_order(db, symbol, "BUY"))
        ELSE
        LET volume == (amount * 1000) \div exec_price
            total  == IF is_paper_mode THEN amount
                      ELSE (exec_price * volume) \div 1000
            paid   == IF is_paper_mode THEN update_paper_balance(db, -amount)
                      ELSE db
            logged == insert_trade_order(paid, symbol, "BUY", "FILLED", e_day)
            held   == upsert_position(
                         logged,
                         [symbol |-> symbol, avg_buy_price |-> exec_price,
                          volume |-> volume])
        IN  [success |-> TRUE, db |-> held, price |-> exec_price,
             volume |-> volume, total_krw |-> total]

\* OrderManager.execute_sell with _paper_sell and _live_sell (a market
\* order)
execute_sell(db, symbol, volume, io) ==
    IF volume <= 0 THEN OrderFailure(db)
    ELSE
    LET fill   == IF is_paper_mode THEN get_current_price(io.fetch_ok)
                  ELSE e_market
        raised == IF is_paper_mode THEN fill <= 0
                  ELSE io.outcome = "rejected"
    IN  IF raised THEN OrderFailure(save_failed_order(db, symbol, "SELL"))
        ELSE
        LET total  == (volume * fill) \div 1000
            paid   == IF is_paper_mode THEN update_paper_balance(db, total)
                      ELSE db
            logged == insert_trade_order(paid, symbol, "SELL", "FILLED", e_day)
        IN  [success |-> TRUE, db |-> db_close_position(logged, symbol),
             price |-> fill, volume |-> volume, total_krw |-> total]

\* OrderManager fee of an order: amount * FEE_RATE (0.05 %)
EngineFee(amount) == (amount * 5) \div 10000
(***************************************************************************)
(* The CryptoAI engine: scoring results, PortfolioAllocator, the risk      *)
(* check of the day's loss.                                                *)
(***************************************************************************)

Signals == {"HOLD", "BUY", "STRONG_BUY"}

\* total_score of a coin with the given signal (thresholds 80 and 65)
ScoreOf(signal) ==
    IF signal = "STRONG_BUY" THEN 90 ELSE IF signal = "BUY" THEN 70 ELSE 50

\* score_all_coins sorted by score, filtered to BUY and STRONG_BUY: the
\* sort is stable, so equal scores keep the order of target_coins
buy_candidates(signals) ==
    LET Strong(c) == signals[c] = "STRONG_BUY"
        Buy(c)    == signals[c] = "BUY"
    IN  SelectSeq(CoinSeq, Strong) \o SelectSeq(CoinSeq, Buy)

\* a fifth of the raw weight of allocate: the score, times 1.5 for
\* STRONG_BUY
RawWeight(signal) ==
    IF signal = "STRONG_BUY" THEN (3 * ScoreOf(signal)) \div 10
    ELSE (2 * ScoreOf(signal)) \div 10

RECURSIVE SumSeq(_)
SumSeq(s) == IF s = <<>> THEN 0 ELSE Head(s) + SumSeq(Tail(s))

\* allocations.sort(key=allocation_amount, reverse=True): stable
RECURSIVE SortByAmount(_)
SortByAmount(s) ==
    IF Len(s) <= 1 THEN s
    ELSE LET x     == Head(s)
             rest  == SortByAmount(Tail(s))
             ahead == {i \in 1..Len(rest) : rest[i].allocation_amount > x.allocation_amount}
             k     == Cardinality(ahead)
         IN  SubSeq(rest, 1, k) \o <<x>> \o SubSeq(rest, k + 1, Len(rest))

\* PortfolioAllocator.allocate with the default ratios: 10 % reserve,
\* weights clamped to [10 %, 50 %] and renormalised, limit price 0.3 %
\* under the current price; the weight of an allocation is the fraction
\* weight[1] / weight[2]
allocate(available_krw, candidates, signals, current_price) ==
    IF candidates = <<>> THEN <<>>
    ELSE IF available_krw * 9 < MIN_ORDER_AMOUNT * 10 THEN <<>>
    ELSE
    LET raw     == [i \in 1..Len(candidates) |-> RawWeight(signals[candidates[i]])]
        total   == SumSeq(raw)
        \* clamped weights in units of 1 / (10 * total)
        clamped == [i \in 1..Len(raw) |->
                        Max(total, Min(5 * total, 10 * raw[i]))]
        clamped_total == SumSeq(clamped)
        Funded(i) ==
            available_krw * 9 * clamped[i] >= MIN_ORDER_AMOUNT * 10 * clamped_total
        made == [i \in 1..Len(candidates) |->
                    [symbol |-> candidates[i],
                     weight |-> <<clamped[i], clamped_total>>,
                     allocation_amount |->
                        RoundDiv(available_krw * 9 * clamped[i], 10 * clamped_total),
                     limit_price |-> RoundDiv(current_price * 997, 1000),
                     funded |-> Funded(i)]]
        IsFunded(a) == a.funded
    IN  SortByAmount(SelectSeq(made, IsFunded))

\* RiskManager.check_daily_loss
check_daily_loss(daily_pnl_krw, total_portfolio_krw) ==
    IF total_portfolio_krw <= 0 THEN FALSE
    ELSE daily_pnl_krw * 100 <= daily_loss_limit_pct * total_portfolio_krw

\* the value of the positions at the current price
PositionsValue(open_positions) ==
    SumSeq([i \in 1..Len(open_positions) |->
                (open_positions[i].volume * e_market) \div 1000])

\* the local state an order may touch
EngineLocal(db) == [balance |-> db.balance, positions |-> db.positions]

\* a job in progress: the db, the orders sent so far, the PnL realized
OrderLogged(jb, op, symbol, result, realized) ==
    [jb EXCEPT
        !.db = result.db,
        !.orders = Append(@, [op |-> op, symbol |-> symbol,
                              ok |-> result.success,
                              pre |-> EngineLocal(jb.db),
                              post |-> EngineLocal(result.db)]),
        !.realized = @ + realized]

(***************************************************************************)
(* The CryptoAI engine: the jobs of TradingScheduler.                      *)
(***************************************************************************)

\* scheduler triggers explored
MaxJobs == 3

\* a job at its start: nothing sent, nothing evaluated yet, no exception
\* raised in its body, none that left the job function, no error alert
\* delivered
JobStart ==
    [db |-> Db, orders |-> <<>>, realized |-> 0, actions |-> <<>>,
     raised |-> FALSE, escaped |-> FALSE, alerted |-> FALSE]

\* an exception reaches the outermost except clause of _job_execute_buy:
\* send_error_alert is called there, and when the webhook post fails the
\* exception it raises leaves the job function
BuyCycleRaised(jb, discord_ok) ==
    [jb EXCEPT !.raised = TRUE, !.alerted = discord_ok,
               !.escaped = ~discord_ok]

\* an exception reaches the except clause of _job_risk_check, which logs it
RiskCheckRaised(jb) == [jb EXCEPT !.raised = TRUE]

\* step 7 of _job_execute_buy from allocation i on; with the webhook down
\* send_trade_alert raises after a filled order, and so does the
\* send_error_alert of the order's except clause
RECURSIVE DispatchBuys(_, _, _, _, _)
DispatchBuys(jb, allocations, ios, discord_ok, i) ==
    IF i > Len(allocations) THEN jb
    ELSE LET a      == allocations[i]
             result == execute_buy(jb.db, a.symbol, a.allocation_amount,
                                   "LIMIT", a.limit_price, ios[a.symbol])
             logged == OrderLogged(jb, "buy", a.symbol, result, 0)
         IN  IF result.success /\ ~discord_ok
             THEN BuyCycleRaised(logged, discord_ok)
             ELSE DispatchBuys(logged, allocations, ios, discord_ok, i + 1)

\* the body of _job_execute_buy after the paused test; at step 6 the
\* alert of a reached loss limit raises with the webhook down, the except
\* clause of the step logs it and the cycle goes on to step 7
execute_buy_cycle(signals, balance_ok, prices_ok, ios, discord_ok) ==
    LET candidates  == buy_candidates(signals)
        total_krw   == IF is_paper_mode THEN e_balance
                       ELSE IF balance_ok THEN UpbitKrw ELSE 0
        allocations == allocate(total_krw, candidates, signals, e_market)
        daily_trades == get_today_trades(Db)
        daily_pnl   == SumSeq([i \in 1..Len(daily_trades) |->
                                trade_pnl_krw(daily_trades[i])])
        \* pos.get("current_value", 0): no position record carries the key
        portfolio_value == total_krw
    IN  IF candidates = <<>> THEN JobStart
        ELSE IF total_krw < MinCashKrw THEN JobStart
        ELSE IF ~prices_ok THEN JobStart
        ELSE IF allocations = <<>> THEN JobStart
        ELSE IF check_daily_loss(daily_pnl, portfolio_value) /\ discord_ok
        THEN JobStart
        ELSE DispatchBuys(JobStart, allocations, ios, discord_ok, 1)

\* RiskManager.check_positions: one action per listed position that has a
\* current price, in the order listed; a position without one is passed over
check_positions(listed, priced, held_hours) ==
    LET have == SelectSeq(listed, LAMBDA pos : pos.symbol \in priced)
    IN  [i \in 1..Len(have) |->
            [symbol |-> have[i].symbol,
             action |-> evaluate_position(
                           [avg_buy_price |-> have[i].avg_buy_price,
                            highest_price |-> 0, held_hours |-> held_hours],
                           e_market)]]

\* the loop of _job_risk_check over the actions, from i on; with the
\* webhook down send_risk_alert raises after a filled sell
RECURSIVE DispatchSells(_, _, _, _, _, _)
DispatchSells(jb, actions, listed, ios, discord_ok, i) ==
    IF i > Len(actions) THEN jb
    ELSE LET action == actions[i]
             found  == SelectSeq(listed,
                                 LAMBDA pos : pos.symbol = action.symbol)
         IN  IF action.action \in {"STOP_LOSS", "TAKE_PROFIT", "TRAILING_STOP"}
                /\ found # <<>>
             THEN LET pos    == found[1]
                      result == execute_sell(jb.db, pos.symbol, pos.volume,
                                             ios[pos.symbol])
                      gain   == IF result.success
                                THEN ((result.price - pos.avg_buy_price)
                                        * pos.volume) \div 1000
                                ELSE 0
                      logged == OrderLogged(jb, "sell", pos.symbol, result,
                                            gain)
                  IN  IF result.success /\ ~discord_ok
                      THEN RiskCheckRaised(logged)
                      ELSE DispatchSells(logged, actions, listed, ios,
                                         discord_ok, i + 1)
             ELSE DispatchSells(jb, actions, listed, ios, discord_ok, i + 1)

\* the body of _job_risk_check after the paused test; priced: the symbols
\* get_current_prices has a price for
risk_check_cycle(priced, held_hours, ios, discord_ok) ==
    LET symbols == {e_positions[i].symbol : i \in 1..Len(e_positions)}
        actions == check_positions(e_positions, priced, held_hours)
    IN  IF e_positions = <<>> THEN JobStart
        ELSE IF priced \cap symbols = {} THEN JobStart
        ELSE DispatchSells([JobStart EXCEPT !.actions = actions],
                           actions, e_positions, ios, discord_ok, 1)

\* whether the day's realized loss has reached the limit: check_daily_loss
\* on the PnL the day's sells realized and the value of cash and positions
LossLimitHit ==
    check_daily_loss(e_realized,
                     (IF is_paper_mode THEN e_balance ELSE UpbitKrw)
                        + PositionsValue(e_positions))

\* a step of the engine leaves the other programs alone
EngineStep ==
    UNCHANGED <<prog, botVars, exitVars, threadVars, fetchVars, scoreVars>>

\* a trigger fires: what every job does first
Triggered(id) ==
    /\ EngineStep
    /\ prog = "engine"
    /\ e_clock < MaxJobs
    /\ e_clock' = e_clock + 1
    /\ UNCHANGED <<e_mode, e_paused, e_market, e_day>>

\* the job returned at its paused test, or ran with the result jb
JobDone(id, jb) ==
    /\ e_job' = [id |-> id, paused |-> e_paused, ran |-> ~e_paused,
                 limit_hit |-> LossLimitHit, orders |-> jb.orders,
                 actions |-> jb.actions,
                 open |-> {e_positions[i].symbol : i \in 1..Len(e_positions)},
                 failed |-> jb.raised,
                 errors |-> IF jb.escaped THEN 1 ELSE 0,
                 alerted |-> jb.alerted]
    /\ e_balance' = jb.db.balance
    /\ e_positions' = jb.db.positions
    /\ e_trades' = jb.db.trades
    /\ e_realized' = e_realized + jb.realized

\* io a mode can meet: the paper engine sends nothing to Upbit
EngineOrderIOs ==
    IF is_paper_mode THEN [fetch_ok : BOOLEAN, outcome : {"filled"}]
    ELSE [fetch_ok : {TRUE}, outcome : UpbitOutcomes]

EngineBalanceFetches == IF is_paper_mode THEN {TRUE} ELSE BOOLEAN

\* _job_collect_data
JobCollectData ==
    /\ Triggered("collect_data")
    /\ JobDone("collect_data", JobStart)

\* _job_calc_indicators
JobCalcIndicators ==
    /\ Triggered("calc_indicators")
    /\ JobDone("calc_indicators", JobStart)

\* _job_scoring
JobScoring ==
    /\ Triggered("scoring")
    /\ JobDone("scoring", JobStart)

\* _job_llm_feedback
JobLlmFeedback ==
    /\ Triggered("llm_feedback")
    /\ JobDone("llm_feedback", JobStart)

\* _job_execute_buy
JobExecuteBuy ==
    /\ Triggered("execute_buy")
    /\ IF e_paused THEN JobDone("execute_buy", JobStart)
       ELSE \E scored \in BOOLEAN, discord_ok \in BOOLEAN :
               IF ~scored
               THEN JobDone("execute_buy", BuyCycleRaised(JobStart, discord_ok))
               ELSE \E signals \in [Coins -> Signals], prices_ok \in BOOLEAN,
                       balance_ok \in EngineBalanceFetches,
                       ios \in [Coins -> EngineOrderIOs] :
                       JobDone("execute_buy",
                               execute_buy_cycle(signals, balance_ok,
                                                 prices_ok, ios, discord_ok))

\* _job_risk_check
JobRiskCheck ==
    /\ Triggered("risk_check")
    /\ IF e_paused THEN JobDone("risk_check", JobStart)
       ELSE \E priced \in SUBSET Coins, held_hours \in EngineHoldHours,
               ios \in [Coins -> EngineOrderIOs], discord_ok \in BOOLEAN :
               JobDone("risk_check",
                       risk_check_cycle(priced, held_hours, ios, discord_ok))

\* TradingScheduler.pause
Pause ==
    /\ EngineStep
    /\ prog = "engine"
    /\ ~e_paused
    /\ e_paused' = TRUE
    /\ UNCHANGED <<e_mode, e_balance, e_positions, e_trades,
                   e_market, e_day, e_clock, e_job, e_realized>>

\* TradingScheduler.resume
Resume ==
    /\ EngineStep
    /\ prog = "engine"
    /\ e_paused
    /\ e_paused' = FALSE
    /\ UNCHANGED <<e_mode, e_balance, e_positions, e_trades,
                   e_market, e_day, e_clock, e_job, e_realized>>

\* the price of the coins moves
EngineMarketMove ==
    /\ EngineStep
    /\ prog = "engine"
    /\ \E m \in EnginePrices \ {e_market} : e_market' = m
    /\ UNCHANGED <<e_mode, e_paused, e_balance, e_positions,
                   e_trades, e_day, e_clock, e_job, e_realized>>

\* midnight passes: the day's realized PnL starts again at 0
EngineDayRollover ==
    /\ EngineStep
    /\ prog = "engine"
    /\ e_day < MaxEvents
    /\ e_day' = e_day + 1
    /\ e_realized' = 0
    /\ UNCHANGED <<e_mode, e_paused, e_balance, e_positions,
                   e_trades, e_market, e_clock, e_job>>

\* the state after create_engine
InitEngine ==
    /\ e_mode \in {"paper", "live"}
    /\ e_paused = FALSE
    /\ e_balance = InitialBalanceKrw
    /\ e_positions = <<>>
    /\ e_trades = <<>>
    /\ e_market = 1000
    /\ e_day = 0
    /\ e_clock = 0
    /\ e_job = NoJob
    /\ e_realized = 0

InitEngineOnly ==
    /\ prog = "engine"
    /\ InitEngine
    /\ BotIdle
    /\ calls = <<>>
    /\ ExitIdle
    /\ ThreadsIdle
    /\ FetchIdle
    /\ ScoreIdle

NextEngine ==
    \/ JobCollectData
    \/ JobCalcIndicators
    \/ JobScoring
    \/ JobLlmFeedback
    \/ JobExecuteBuy
    \/ JobRiskCheck
    \/ Pause
    \/ Resume
    \/ EngineMarketMove
    \/ EngineDayRollover

SpecEngine == InitEngineOnly /\ [][NextEngine]_vars

(***************************************************************************)
(* The executors of both programs with their order operations called       *)
(* directly: OrderManager.execute_buy and execute_sell with every kind of  *)
(* argument, next to the bot of SpecOps.                                   *)
(***************************************************************************)

\* amounts of a buy order: under and over MIN_ORDER_AMOUNT
BuyAmounts == {400, 50000}

\* limit prices of a buy order (0: None)
BuyLimitPrices == {0, 997}

\* volumes a sell of symbol can ask for: nothing, or what the db holds
SellVolumes(symbol) ==
    {0} \cup {e_positions[i].volume :
                i \in {j \in 1..Len(e_positions) : e_positions[j].symbol = symbol}}

\* quantities of a close or sell that is no order at all
NoQuantities == {-1, 0}

\* one order operation called on the engine's executor
OrderCalled(op, symbol, result) ==
    /\ EngineStep
    /\ prog = "engine"
    /\ e_clock < MaxJobs
    /\ e_clock' = e_clock + 1
    /\ JobDone("order", OrderLogged(JobStart, op, symbol, result, 0))
    /\ UNCHANGED <<e_mode, e_paused, e_market, e_day>>

\* OrderManager.execute_buy
ExecuteBuy ==
    \E symbol \in Coins, amount \in BuyAmounts, order_type \in {"LIMIT", "MARKET"},
       limit_price \in BuyLimitPrices, io \in EngineOrderIOs :
        OrderCalled("buy", symbol,
                    execute_buy(Db, symbol, amount, order_type, limit_price, io))

\* OrderManager.execute_sell
ExecuteSell ==
    \E symbol \in Coins, io \in EngineOrderIOs :
        \E volume \in SellVolumes(symbol) :
            OrderCalled("sell", symbol, execute_sell(Db, symbol, volume, io))

InitExec ==
    \/ Init
    \/ InitEngineOnly

NextExec ==
    \/ LoopTop
    \/ ProcessPair
    \/ SyncWithExchange
    \/ Sleep
    \/ Restart
    \/ ExecuteClose
    \/ ExecuteBuy
    \/ ExecuteSell
    \/ EngineMarketMove

SpecExec == InitExec /\ [][NextExec]_vars

(***************************************************************************)
(* Two jobs at the same time.  BackgroundScheduler runs every job in its   *)
(* thread pool and max_instances = 1 holds per job, so _job_execute_buy    *)
(* and _job_risk_check can run side by side on the one InMemoryDBManager   *)
(* and OrderManager.  The buy thread is inside execute_buy, the risk-check *)
(* thread inside the execute_sell of a position its check decided to sell. *)
(* A step is what a thread does between two points where the interpreter   *)
(* can hand over to the other thread; no statement of either path takes a  *)
(* lock.  Paper mode, prices are fetched.                                  *)
(***************************************************************************)

\* the volume the record of symbol carries in the list, 0 without a record
VolumeOf(listed, symbol) ==
    LET found == SelectSeq(listed, LAMBDA pos : pos.symbol = symbol)
    IN  IF found = <<>> THEN 0 ELSE found[1].volume

\* the db after the engine's first order: one coin bought
StartDbs ==
    {execute_buy([balance |-> InitialBalanceKrw, positions |-> <<>>,
                  trades |-> <<>>],
                 symbol, amount, "MARKET", 0,
                 [fetch_ok |-> TRUE, outcome |-> "filled"]).db :
        symbol \in Coins, amount \in {a \in BuyAmounts : a >= MIN_ORDER_AMOUNT}}

InitThreads ==
    /\ prog = "threads"
    /\ BotIdle
    /\ calls = <<>>
    /\ ExitIdle
    /\ FetchIdle
    /\ ScoreIdle
    /\ e_mode = "paper"
    /\ e_paused = FALSE
    /\ e_market = 1000
    /\ e_day = 0
    /\ e_clock = 0
    /\ e_job = NoJob
    /\ e_realized = 0
    /\ t_start \in StartDbs
    /\ e_balance = t_start.balance
    /\ e_positions = t_start.positions
    /\ e_trades = t_start.trades
    /\ \E symbol \in Coins, limit_price \in BuyLimitPrices,
          amount \in {a \in BuyAmounts : a >= MIN_ORDER_AMOUNT} :
          t_buy = [pc |-> "called", symbol |-> symbol, amount |-> amount,
                   limit_price |-> limit_price, price |-> 0, volume |-> 0,
                   loaded |-> 0, existing |-> FALSE]
    /\ \E i \in 1..Len(t_start.positions) :
          t_sell = [pc |-> "called", symbol |-> t_start.positions[i].symbol,
                    volume |-> 0, total |-> 0, loaded |-> 0, kept |-> <<>>]

\* a step of one thread leaves the other thread and the rest alone
ThreadStep ==
    /\ prog = "threads"
    /\ UNCHANGED <<prog, botVars, exitVars, fetchVars, scoreVars, t_start, e_mode,
                   e_paused, e_market, e_day, e_clock, e_job, e_realized>>

\* execute_buy up to the read of self._balance in update_paper_balance:
\* _paper_buy has its price and volume
BuyLoad ==
    /\ ThreadStep
    /\ t_buy.pc = "called"
    /\ LET exec_price == IF t_buy.limit_price # 0 THEN t_buy.limit_price
                         ELSE get_current_price(TRUE)
       IN  t_buy' = [t_buy EXCEPT !.pc = "loaded", !.price = exec_price,
                        !.volume = (t_buy.amount * 1000) \div exec_price,
                        !.loaded = e_balance]
    /\ UNCHANGED <<t_sell, e_balance, e_positions, e_trades>>

\* the store of self._balance += delta_krw
BuyStore ==
    /\ ThreadStep
    /\ t_buy.pc = "loaded"
    /\ e_balance' = t_buy.loaded - t_buy.amount
    /\ t_buy' = [t_buy EXCEPT !.pc = "paid"]
    /\ UNCHANGED <<t_sell, e_positions, e_trades>>

\* insert_trade_order of the filled buy
BuyInsert ==
    /\ ThreadStep
    /\ t_buy.pc = "paid"
    /\ e_trades' = insert_trade_order(Db, t_buy.symbol, "BUY", "FILLED",
                                      e_day).trades
    /\ t_buy' = [t_buy EXCEPT !.pc = "logged"]
    /\ UNCHANGED <<t_sell, e_balance, e_positions>>

\* upsert_position: existing = next(...), the record of the symbol in the
\* list as it is now
BuyFind ==
    /\ ThreadStep
    /\ t_buy.pc = "logged"
    /\ t_buy' = [t_buy EXCEPT
                    !.pc = "found",
                    !.existing = \E i \in 1..Len(e_positions) :
                                    e_positions[i].symbol = t_buy.symbol]
    /\ UNCHANGED <<t_sell, e_balance, e_positions, e_trades>>

\* upsert_position: existing.update(position) changes the record found,
\* which shows in the list only if the list still holds that record;
\* without a record found the position is appended to the list as it is now
BuyWrite ==
    /\ ThreadStep
    /\ t_buy.pc = "found"
    /\ LET position == [symbol |-> t_buy.symbol,
                        avg_buy_price |-> t_buy.price,
                        volume |-> t_buy.volume]
       IN  e_positions' =
              IF t_buy.existing
              THEN [i \in 1..Len(e_positions) |->
                      IF e_positions[i].symbol = t_buy.symbol THEN position
                      ELSE e_positions[i]]
              ELSE Append(e_positions, position)
    /\ t_buy' = [t_buy EXCEPT !.pc = "done"]
    /\ UNCHANGED <<t_sell, e_balance, e_trades>>

\* _job_risk_check reads pos["volume"] and calls execute_sell, up to the
\* read of self._balance in update_paper_balance
SellLoad ==
    /\ ThreadStep
    /\ t_sell.pc = "called"
    /\ LET volume == VolumeOf(e_positions, t_sell.symbol)
       IN  t_sell' = [t_sell EXCEPT
                         !.pc = "loaded", !.volume = volume,
                         !.total = (volume * get_current_price(TRUE))
                                      \div 1000,
                         !.loaded = e_balance]
    /\ UNCHANGED <<t_buy, e_balance, e_positions, e_trades>>

\* the store of self._balance += delta_krw
SellStore ==
    /\ ThreadStep
    /\ t_sell.pc = "loaded"
    /\ e_balance' = t_sell.loaded + t_sell.total
    /\ t_sell' = [t_sell EXCEPT !.pc = "paid"]
    /\ UNCHANGED <<t_buy, e_positions, e_trades>>

\* insert_trade_order of the filled sell
SellInsert ==
    /\ ThreadStep
    /\ t_sell.pc = "paid"
    /\ e_trades' = insert_trade_order(Db, t_sell.symbol, "SELL", "FILLED",
                                      e_day).trades
    /\ t_sell' = [t_sell EXCEPT !.pc = "logged"]
    /\ UNCHANGED <<t_buy, e_balance, e_positions>>

\* close_position: the list comprehension over the list as it is now
SellFilter ==
    /\ ThreadStep
    /\ t_sell.pc = "logged"
    /\ t_sell' = [t_sell EXCEPT
                     !.pc = "filtered",
                     !.kept = db_close_position(Db, t_sell.symbol).positions]
    /\ UNCHANGED <<t_buy, e_balance, e_positions, e_trades>>

\* close_position: the assignment of the new list to self._positions
SellAssign ==
    /\ ThreadStep
    /\ t_sell.pc = "filtered"
    /\ e_positions' = t_sell.kept
    /\ t_sell' = [t_sell EXCEPT !.pc = "done"]
    /\ UNCHANGED <<t_buy, e_balance, e_trades>>

NextThreads ==
    \/ BuyLoad
    \/ BuyStore
    \/ BuyInsert
    \/ BuyFind
    \/ BuyWrite
    \/ SellLoad
    \/ SellStore
    \/ SellInsert
    \/ SellFilter
    \/ SellAssign

SpecThreads == InitThreads /\ [][NextThreads]_vars

(***************************************************************************)
(* Rule evaluation on its own: inputs drawn from bounded sets.             *)
(***************************************************************************)
\* price grid around an entry price of 1000
ExitPrices == {970, 980, 990, 1000, 1004, 1008, 1015, 1020, 1025, 1050}

ExitEntries == {1000}

ExitHoldTimes == {0, 60, 73}

ExitInputs ==
    /\ x_position \in [entry_price : ExitEntries,
                       position_side : {"long", "short"},
                       tp_stage_hit : 0..2,
                       peak_price : ExitPrices]
    /\ (x_position.position_side = "long"
            => x_position.peak_price >= x_position.entry_price)
    /\ (x_position.position_side = "short"
            => x_position.peak_price <= x_position.entry_price)
    /\ x_candle \in [close : ExitPrices,
                     recent_low : {970, 1000, 1050},
                     recent_high : {970, 1000, 1050},
                     ema_cross : {-1, 0, 1}]
    /\ x_candle.recent_low <= x_candle.close
    /\ x_candle.recent_high >= x_candle.close
    /\ x_hold \in ExitHoldTimes

InitExit ==
    /\ prog = "rules"
    /\ ExitInputs
    /\ x_signal = NoSignal
    /\ x_action = NoAction
    /\ BotIdle
    /\ calls = <<>>
    /\ EngineIdle
    /\ ThreadsIdle
    /\ FetchIdle
    /\ ScoreIdle

\* an evaluation leaves the programs alone
RulesStep ==
    prog = "rules" /\ UNCHANGED <<prog, botVars, engineVars, threadVars,
                                 fetchVars, scoreVars>>

\* SignalEngine.check_exit_signal applied to the drawn input
EvalExit ==
    /\ RulesStep
    /\ x_signal = NoSignal
    /\ x_signal' = check_exit_signal(x_position, x_candle, x_hold)
    /\ UNCHANGED <<x_position, x_candle, x_hold, x_action>>

\* RiskManager._evaluate_position applied to the same position, read as an
\* engine position (long only, highest_price = peak_price, hours held)
EvalEngine ==
    /\ RulesStep
    /\ x_action = NoAction
    /\ x_position.position_side = "long"
    /\ x_action' = evaluate_position(
                      [avg_buy_price |-> x_position.entry_price,
                       highest_price |-> x_position.peak_price,
                       held_hours |-> x_hold],
                      x_candle.close)
    /\ UNCHANGED <<x_position, x_candle, x_hold, x_signal>>

NextExit ==
    \/ EvalExit
    \/ EvalEngine

SpecExit == InitExit /\ [][NextExit]_vars

(***************************************************************************)
(* DataFetcher.get_candles.  A series is the record [rows, nan]: how many  *)
(* candles it has and how many of them carry a NaN field.                  *)
(***************************************************************************)

\* utils/constants.py MIN_CANDLES_FOR_INDICATORS
MIN_CANDLES_FOR_INDICATORS == 50

\* utils/constants.py TIMEFRAME_MAP on the intervals used here
resolve_timeframe(interval) ==
    IF interval = "minute5" THEN "5m"
    ELSE IF interval = "minute60" THEN "1h"
    ELSE interval

Intervals == {"minute5", "5m", "1h"}

\* the keys of the cache: f"{pair}_{tf}"
CacheKeys == Pairs \X {resolve_timeframe(i) : i \in Intervals}

\* None, as a return value and as a key the cache does not hold
NoSeries == [none |-> TRUE, rows |-> 0, nan |-> 0]

Series(rows, nan) == [none |-> FALSE, rows |-> rows, nan |-> nan]

\* what one fetch_ohlcv attempt can give: a list of candles (possibly
\* empty), a ccxt.NetworkError, another exception
FetchAttempts ==
    {a \in [kind : {"candles", "NetworkError", "Exception"},
            rows : {0, 49, 50, 51}, nan : {0, 1}] :
        /\ a.nan <= a.rows
        /\ a.kind # "candles" => a.rows = 0}

\* attempts of one call: max_retries + 1
MaxAttempts == 3

\* the retry loop of get_candles from attempt i on: the first non-empty
\* list ends it, a NetworkError is retried until the last attempt, any
\* other exception leaves the loop at once
RECURSIVE fetch_ohlcv(_, _)
fetch_ohlcv(attempts, i) ==
    LET got == attempts[i]
    IN  IF got.kind = "Exception" THEN [raised |-> TRUE, rows |-> 0, nan |-> 0]
        ELSE IF got.kind = "NetworkError"
        THEN IF i < MaxAttempts THEN fetch_ohlcv(attempts, i + 1)
             ELSE [raised |-> TRUE, rows |-> 0, nan |-> 0]
        ELSE IF got.rows > 0 \/ i = MaxAttempts
        THEN [raised |-> FALSE, rows |-> got.rows, nan |-> got.nan]
        ELSE fetch_ohlcv(attempts, i + 1)

\* df.dropna()
dropna(df) == Series(df.rows - df.nan, 0)

\* DataFetcher.get_candles: the cache afterwards and what is returned
get_candles(cache, pair, interval, attempts) ==
    LET tf        == resolve_timeframe(interval)
        cache_key == <<pair, tf>>
        cached    == ~cache[cache_key].none
        ohlcv     == fetch_ohlcv(attempts, 1)
        Result(c, r) == [cache |-> c, key |-> cache_key, returned |-> r]
    IN  IF ohlcv.raised
        THEN Result(cache, IF cached THEN cache[cache_key] ELSE NoSeries)
        ELSE IF ohlcv.rows = 0
        THEN Result(cache, IF cached THEN cache[cache_key] ELSE NoSeries)
        ELSE IF ohlcv.rows < MIN_CANDLES_FOR_INDICATORS
        THEN Result(cache,
                    IF cached /\ cache[cache_key].rows
                                    >= MIN_CANDLES_FOR_INDICATORS
                    THEN cache[cache_key] ELSE NoSeries)
        ELSE LET df == IF ohlcv.nan > 0 THEN dropna(ohlcv)
                       ELSE Series(ohlcv.rows, ohlcv.nan)
             IN  Result([cache EXCEPT ![cache_key] = df], df)

InitCandles ==
    /\ prog = "candles"
    /\ BotIdle
    /\ calls = <<>>
    /\ EngineIdle
    /\ ExitIdle
    /\ ThreadsIdle
    /\ ScoreIdle
    /\ d_cache = [k \in CacheKeys |-> NoSeries]
    /\ d_call = [key |-> <<>>, returned |-> NoSeries]

\* one get_candles call of _process_pair
GetCandles ==
    /\ prog = "candles"
    /\ UNCHANGED <<prog, botVars, engineVars, exitVars, threadVars, scoreVars>>
    /\ \E pair \in Pairs, interval \in Intervals,
          attempts \in [1..MaxAttempts -> FetchAttempts] :
          LET r == get_candles(d_cache, pair, interval, attempts)
          IN  /\ d_cache' = r.cache
              /\ d_call' = [key |-> r.key, returned |-> r.returned]

NextCandles ==
    \/ GetCandles

SpecCandles == InitCandles /\ [][NextCandles]_vars

(***************************************************************************)
(* MultiFactorScoring.score_coin.  Scores are kept in thousandths of a     *)
(* point and weights in thousandths, and the weighted sum is exact where   *)
(* the float sum of the source can be one unit in the last place off; the  *)
(* reported fields are round(x, 2), in hundredths of a point.  Indicators  *)
(* are integers: RSI, ATR percent, volume ratio and news sentiment in      *)
(* tenths, the Bollinger width in thousandths, the rest in units.          *)
(***************************************************************************)

\* a contribution of n points
Points(n) == n * 1000

\* _clamp with the bounds dropped
clamp_unbounded(value) == value

\* _clamp(value, lo=0.0, hi=100.0)
clamp(value) == Max(0, Min(Points(100), value))

\* round(x, 2) of a score: thousandths to hundredths, ties to the even digit
round2(x) ==
    LET q == x \div 10
        r == x % 10
    IN  IF r > 5 \/ (r = 5 /\ q % 2 = 1) THEN q + 1 ELSE q

\* _calc_technical_score, the RSI(14) contribution
rsi_contrib(rsi) ==
    IF rsi < 200 THEN Points(30)
    ELSE IF rsi < 300 THEN Points(20)
    ELSE IF rsi < 400 THEN Points(10)
    ELSE IF rsi > 850 THEN Points(-30)
    ELSE IF rsi > 750 THEN Points(-20)
    ELSE IF rsi > 650 THEN Points(-5)
    ELSE 0

\* _calc_technical_score: RSI, MACD histogram, Bollinger position, SMA
\* arrangement, EMA cross, ADX
calc_technical_score(ind) ==
    LET macd_contrib ==
            IF ind.macd_histogram > 0 /\ ind.macd_signal < 0 THEN Points(15)
            ELSE IF ind.macd_histogram > 0 THEN Points(8)
            ELSE IF ind.macd_histogram < 0 /\ ind.macd_signal > 0
            THEN Points(-12)
            ELSE IF ind.macd_histogram < 0 THEN Points(-5)
            ELSE 0
        close    == ind.current_price
        bb_lower == ind.bollinger_lower
        bb_upper == ind.bollinger_upper
        \* bb_position = (close - bb_lower) / (bb_upper - bb_lower), compared
        \* in hundredths of the band
        pos      == (close - bb_lower) * 100
        band     == bb_upper - bb_lower
        bb_contrib ==
            IF bb_upper > bb_lower /\ bb_lower > 0 /\ close > 0
            THEN IF pos < 10 * band THEN Points(20)
                 ELSE IF pos < 25 * band THEN Points(12)
                 ELSE IF pos > 90 * band THEN Points(-15)
                 ELSE IF pos > 75 * band THEN Points(-8)
                 ELSE 0
            ELSE 0
        sma5  == ind.sma_5
        sma20 == ind.sma_20
        sma60 == ind.sma_60
        ma_contrib ==
            IF sma5 > 0 /\ sma20 > 0 /\ sma60 > 0
            THEN IF sma5 > sma20 /\ sma20 > sma60 THEN Points(12)
                 ELSE IF sma5 > sma20 THEN Points(5)
                 ELSE IF sma5 < sma20 /\ sma20 < sma60 THEN Points(-12)
                 ELSE IF sma5 < sma20 THEN Points(-5)
                 ELSE 0
            ELSE 0
        \* ema_diff_pct = (ema12 - ema26) / ema26 * 100 against 1.0 and -1.0
        ema_diff == (ind.ema_12 - ind.ema_26) * 100
        ema_contrib ==
            IF ind.ema_12 > 0 /\ ind.ema_26 > 0
            THEN IF ema_diff > ind.ema_26 THEN Points(5)
                 ELSE IF ema_diff < -ind.ema_26 THEN Points(-5)
                 ELSE 0
            ELSE 0
        adx_contrib ==
            IF ind.adx > 40 THEN Points(5)
            ELSE IF ind.adx < 15 THEN Points(-3)
            ELSE 0
        score == Points(50) + rsi_contrib(ind.rsi_14) + macd_contrib
                 + bb_contrib + ma_contrib + ema_contrib + adx_contrib
    IN  [score   |-> clamp(score),
         raw     |-> score,
         details |-> [value |-> ind.rsi_14,
                      contribution |-> rsi_contrib(ind.rsi_14)]]

\* _calc_momentum_score: price gap from the open, stochastic K/D, ROC, CCI
calc_momentum_score(ind) ==
    LET current    == ind.current_price
        open_price == ind.open_price
        \* gap_pct = (current - open_price) / open_price * 100, compared
        \* after multiplying both sides by open_price
        gap        == (current - open_price) * 100
        gap_contrib ==
            IF open_price > 0
            THEN IF -5 * open_price < gap /\ gap <= -3 * open_price
                 THEN Points(15)
                 ELSE IF -3 * open_price < gap /\ 2 * gap <= -open_price
                 THEN Points(20)
                 ELSE IF -10 * open_price < gap /\ gap <= -5 * open_price
                 THEN Points(5)
                 ELSE IF gap <= -10 * open_price THEN Points(-15)
                 ELSE IF 0 < gap /\ gap <= 2 * open_price THEN Points(5)
                 ELSE IF 2 * open_price < gap /\ gap <= 5 * open_price
                 THEN Points(-3)
                 ELSE IF gap > 5 * open_price THEN Points(-10)
                 ELSE 0
            ELSE 0
        stoch_k == ind.stoch_k
        stoch_d == ind.stoch_d
        stoch_band ==
            IF stoch_k < 15 THEN Points(20)
            ELSE IF stoch_k < 25 THEN Points(12)
            ELSE IF stoch_k > 85 THEN Points(-15)
            ELSE IF stoch_k > 75 THEN Points(-8)
            ELSE 0
        stoch_contrib ==
            IF stoch_k > stoch_d /\ stoch_k < 30
            THEN stoch_band + Points(5) ELSE stoch_band
        roc == ind.roc_12
        roc_contrib ==
            IF roc < -5 THEN Points(10)
            ELSE IF roc > 10 THEN Points(-5)
            ELSE IF 0 < roc /\ roc <= 5 THEN Points(5)
            ELSE 0
        cci == ind.cci_20
        cci_contrib ==
            IF cci < -200 THEN Points(15)
            ELSE IF cci < -100 THEN Points(8)
            ELSE IF cci > 200 THEN Points(-12)
            ELSE IF cci > 100 THEN Points(-5)
            ELSE 0
        score == Points(50) + gap_contrib + stoch_contrib + roc_contrib
                 + cci_contrib
    IN  [score |-> clamp(score), raw |-> score]

\* _calc_volatility_score: the regime, ATR percent, Bollinger width; 50.0
\* as it is when there is no volatility data
calc_volatility_score(vol) ==
    LET regime == vol.volatility_regime
        regime_contrib ==
            IF regime = "LOW" THEN Points(-10)
            ELSE IF regime = "MEDIUM" THEN Points(25)
            ELSE IF regime = "HIGH" THEN Points(5)
            ELSE IF regime = "EXTREME" THEN Points(-20)
            ELSE 0
        atr_pct == vol.atr_percent
        atr_contrib ==
            IF 10 <= atr_pct /\ atr_pct <= 30 THEN Points(10)
            ELSE IF 30 < atr_pct /\ atr_pct <= 50 THEN 0
            ELSE IF atr_pct > 50 THEN Points(-10)
            ELSE IF atr_pct < 5 THEN Points(-5)
            ELSE 0
        bb_width == vol.bb_width
        bbw_contrib ==
            IF 20 < bb_width /\ bb_width < 60 THEN Points(5)
            ELSE IF bb_width >= 100 THEN Points(-5)
            ELSE IF bb_width <= 10 THEN Points(-3)
            ELSE 0
        score == Points(50) + regime_contrib + atr_contrib + bbw_contrib
    IN  IF vol.none THEN [score |-> Points(50), raw |-> Points(50)]
        ELSE [score |-> clamp(score), raw |-> score]

\* _calc_volume_score: volume ratio, OBV trend, distance from the VWAP
calc_volume_score(ind) ==
    LET volume_ratio == ind.volume_ratio
        vr_contrib ==
            IF volume_ratio > 50 THEN Points(30)
            ELSE IF volume_ratio > 30 THEN Points(22)
            ELSE IF volume_ratio > 20 THEN Points(15)
            ELSE IF volume_ratio > 15 THEN Points(10)
            ELSE IF volume_ratio > 10 THEN Points(3)
            ELSE IF volume_ratio < 3 THEN Points(-20)
            ELSE IF volume_ratio < 5 THEN Points(-12)
            ELSE IF volume_ratio < 7 THEN Points(-5)
            ELSE 0
        obv_contrib ==
            IF ind.obv_trend = "RISING" THEN Points(10)
            ELSE IF ind.obv_trend = "FALLING" THEN Points(-8)
            ELSE 0
        vwap  == ind.vwap
        close == ind.current_price
        \* vwap_pct = (close - vwap) / vwap * 100 against -2 and 3
        vwap_diff == (close - vwap) * 100
        vwap_contrib ==
            IF vwap > 0 /\ close > 0
            THEN IF vwap_diff < -2 * vwap THEN Points(8)
                 ELSE IF vwap_diff > 3 * vwap THEN Points(-5)
                 ELSE 0
            ELSE 0
        score == Points(50) + vr_contrib + obv_contrib + vwap_contrib
    IN  [score |-> clamp(score), raw |-> score]

\* _calc_sentiment_score: fear and greed index, news sentiment, social
\* volume; 50.0 as it is when there is no sentiment data
calc_sentiment_score(sentiment) ==
    LET fear_greed == sentiment.fear_greed_index
        fg_contrib ==
            IF fear_greed < 15 THEN Points(30)
            ELSE IF fear_greed < 25 THEN Points(20)
            ELSE IF fear_greed < 35 THEN Points(10)
            ELSE IF fear_greed > 85 THEN Points(-25)
            ELSE IF fear_greed > 75 THEN Points(-15)
            ELSE IF fear_greed > 65 THEN Points(-8)
            ELSE 0
        news_sentiment == sentiment.news_sentiment
        news_contrib ==
            IF news_sentiment > 5 THEN Points(8)
            ELSE IF news_sentiment > 2 THEN Points(4)
            ELSE IF news_sentiment < -5 THEN Points(-8)
            ELSE IF news_sentiment < -2 THEN Points(-4)
            ELSE 0
        social_volume == sentiment.social_volume_change
        social_contrib ==
            IF social_volume > 100 THEN Points(5)
            ELSE IF social_volume < -50 THEN Points(-3)
            ELSE 0
        score == Points(50) + fg_contrib + news_contrib + social_contrib
    IN  IF sentiment.none THEN [score |-> Points(50), raw |-> Points(50)]
        ELSE [score |-> clamp(score), raw |-> score]

\* _determine_signal with the default thresholds 80, 70 and 30
determine_signal(total_score) ==
    IF total_score >= Points(80) THEN "STRONG_BUY"
    ELSE IF total_score >= Points(70) THEN "BUY"
    ELSE IF total_score <= Points(30) THEN "SELL"
    ELSE "HOLD"

\* score_coin: the ValueError when there are no indicators, else the
\* ScoringResult; the signal is decided on the total before it is rounded
score_coin(weights, indicators, volatility_data, sentiment_data) ==
    IF indicators.none
    THEN [kind |-> "ValueError"]
    ELSE LET tech     == calc_technical_score(indicators)
             momentum == calc_momentum_score(indicators)
             vol      == calc_volatility_score(volatility_data)
             volume   == calc_volume_score(indicators)
             sent     == calc_sentiment_score(sentiment_data)
             total_score ==
                 clamp((weights.technical * tech.score
                        + weights.momentum * momentum.score
                        + weights.volatility * vol.score
                        + weights.volume * volume.score
                        + weights.sentiment * sent.score) \div 1000)
         IN  [kind             |-> "ScoringResult",
              technical_score  |-> round2(tech.score),
              momentum_score   |-> round2(momentum.score),
              volatility_score |-> round2(vol.score),
              volume_score     |-> round2(volume.score),
              sentiment_score  |-> round2(sent.score),
              total_score      |-> round2(total_score),
              signal           |-> determine_signal(total_score),
              details          |-> tech.details,
              raw              |-> <<tech.raw, momentum.raw, vol.raw,
                                     volume.raw, sent.raw>>]

\* MultiFactorScoring.DEFAULT_WEIGHTS
DEFAULT_WEIGHTS ==
    [technical |-> 300, momentum |-> 250, volatility |-> 150,
     volume |-> 150, sentiment |-> 150]

\* the weights a scorer is built with: the defaults, or a dictionary whose
\* sum __init__ accepts (0.99 to 1.01)
WeightSets ==
    {w \in {DEFAULT_WEIGHTS,
            [technical |-> 302, momentum |-> 248, volatility |-> 150,
             volume |-> 150, sentiment |-> 150]} :
        LET total_weight == w.technical + w.momentum + w.volatility
                            + w.volume + w.sentiment
        IN  990 <= total_weight /\ total_weight <= 1010}

\* db.get_latest_indicators: nothing, or a row of indicators
Indicators ==
    [none : {FALSE},
     rsi_14 : {150, 299, 300, 500, 850, 851},
     macd_histogram : {-1, 1}, macd_signal : {-1},
     current_price : {100},
     bollinger_lower : {10, 98}, bollinger_upper : {105, 148},
     sma_5 : {1, 3}, sma_20 : {2}, sma_60 : {1, 3},
     ema_12 : {98, 102}, ema_26 : {100},
     adx : {10, 50},
     open_price : {101, 115}, stoch_k : {10, 90}, stoch_d : {50},
     roc_12 : {-6}, cci_20 : {-250, 250},
     volume_ratio : {2, 10, 60}, obv_trend : {"RISING"}, vwap : {96}]
    \cup
    [none : {TRUE},
     rsi_14 : {500}, macd_histogram : {1}, macd_signal : {-1},
     current_price : {100}, bollinger_lower : {98}, bollinger_upper : {148},
     sma_5 : {1}, sma_20 : {2}, sma_60 : {1}, ema_12 : {98}, ema_26 : {100},
     adx : {10}, open_price : {101}, stoch_k : {10}, stoch_d : {50},
     roc_12 : {-6}, cci_20 : {250}, volume_ratio : {10},
     obv_trend : {"RISING"}, vwap : {96}]

\* db.get_latest_volatility: None, or a row
Volatilities ==
    [none : {FALSE}, volatility_regime : {"MEDIUM", "EXTREME"},
     atr_percent : {20}, bb_width : {30}]
    \cup
    [none : {TRUE}, volatility_regime : {"MEDIUM"}, atr_percent : {20},
     bb_width : {30}]

\* db.get_latest_sentiment: None, or a row
Sentiments ==
    [none : {FALSE}, fear_greed_index : {10, 90},
     news_sentiment : {0}, social_volume_change : {0}]
    \cup
    [none : {TRUE}, fear_greed_index : {50}, news_sentiment : {0},
     social_volume_change : {0}]

InitScoring ==
    /\ prog = "scoring"
    /\ BotIdle
    /\ calls = <<>>
    /\ EngineIdle
    /\ ExitIdle
    /\ ThreadsIdle
    /\ FetchIdle
    /\ s_weights \in WeightSets
    /\ s_db \in [indicators : Indicators, volatility : Volatilities,
                 sentiment : Sentiments]
    /\ s_call = [kind |-> "none"]

\* score_coin applied to the rows of the db
ScoreCoin ==
    /\ prog = "scoring"
    /\ s_call.kind = "none"
    /\ UNCHANGED <<prog, botVars, engineVars, exitVars, threadVars,
                   fetchVars, s_weights, s_db>>
    /\ s_call' = score_coin(s_weights, s_db.indicators, s_db.volatility,
                            s_db.sentiment)

NextScoring ==
    \/ ScoreCoin

SpecScoring == InitScoring /\ [][NextScoring]_vars
(***************************************************************************)
(* Properties of the OKX bot's main loop.                                  *)
(***************************************************************************)

\* C1 (as written): while the RiskManager's halt flag is set, every open
\* position is still evaluated against the exit rules on every iteration of
\* the main loop.
C1_AsWritten ==
    (pc = "sleep" /\ rm.is_stopped) => DOMAIN positions \subseteq iter.evaluated

\* what PositionTracker holds, as <<base, side, quantity>>
PTView ==
    {<<symbol_to_base(p), positions[p].position_side, positions[p].quantity>> :
        p \in DOMAIN positions}

\* what the authoritative source holds: the exchange's book in live mode,
\* the simulated holdings in paper mode
SourceView ==
    IF mode = "live"
    THEN {<<symbol_to_base(k[1]), k[2], exchange[k]>> :
            k \in {j \in ExKeys : exchange[j] > 0}}
    ELSE {<<k[1], k[2], paper.holdings[k]>> :
            k \in {j \in HoldKeys : paper.holdings[j] > 0}}

\* the reconciler ran in this iteration, obtained the listing, and every
\* order it sent succeeded
ReconciledCleanly ==
    /\ pc = "sleep"
    /\ iter.sync_ran
    /\ iter.fetch_ok
    /\ \A i \in 1..Len(calls) : calls[i].ok

\* C2 (as written): right after a reconciler cycle PositionTracker and the
\* authoritative source agree on the side and the quantity of every
\* instrument.
C2_AsWritten == ReconciledCleanly => PTView = SourceView

\* C7 (as written): the reconciler runs in every iteration of the main
\* loop, whatever the trading state.
C7_AsWritten == pc = "sleep" => iter.sync_ran

\* a step of the reconciler
SyncStep == prog = "bot" /\ pc = "sync" /\ pc' = "sleep"

\* the listing the reconciler is handed in this step
ListingGiven == get_all_positions_standardized(Executor, iter'.fetch_ok)

\* a listed position without a PT record of its pair and side
NobodyManages(e) ==
    \/ e.pair \notin DOMAIN positions
    \/ positions[e.pair].position_side # e.side

\* the close orders of this step for the listed position e that ask for the
\* reported quantity and leave PT as they found it
ClosesOf(e) ==
    {i \in 1..Len(calls') :
        /\ calls'[i].op = "close_unmanaged"
        /\ calls'[i].pair = e.pair
        /\ calls'[i].side = e.side
        /\ calls'[i].quantity = e.qty
        /\ calls'[i].pre.positions = calls'[i].post.positions}

\* after the step the authoritative source holds nothing of e
GoneAfter(e) ==
    IF mode = "live" THEN exchange'[<<e.pair, e.side>>] = 0
    ELSE paper'.holdings[HoldKey(e.pair, e.side)] = 0

TierClose(p, reason) ==
    /\ pc = "loop"
    /\ p \in DOMAIN positions
    /\ p \in DOMAIN positions'
    /\ positions'[p].quantity < positions[p].quantity
    /\ \E io \in SyncIOs, sync_ok \in BalanceFetchOutcomes :
          LET r == execute_close(Bundle, p, reason, PctPartial, io,
                                 [snapshot_ok |-> TRUE, sync_ok |-> sync_ok])
          IN  /\ r.calls[1].ok
              /\ p \in DOMAIN r.positions
              /\ positions' = r.positions
              /\ calls' = r.calls

RolloverSeen == rm'.daily_date # rm.daily_date

\* C14 (as written): the halt flag is cleared only by day rollover (the bot
\* has no manual resume), and at day rollover the daily counters (trade
\* count, realized PnL, consecutive-loss streak) are zero and the flag is
\* back to active.
C14_AsWritten ==
    [][/\ (rm.is_stopped /\ ~rm'.is_stopped) => RolloverSeen
       /\ RolloverSeen =>
             /\ rm'.daily_trades = 0
             /\ rm'.daily_pnl_usdt = 0
             /\ rm'.consecutive_losses = 0
             /\ ~rm'.is_stopped]_vars

\* this step records a losing close / a winning close
LossRecorded ==
    \E res \in TradeResults :
        ~res[2] /\ rm' = record_trade_result(rm, res[1], res[2])

WinRecorded ==
    \E res \in TradeResults :
        res[2] /\ rm' = record_trade_result(rm, res[1], res[2])

\* this step asks can_trade
CanTradeAsked == iter' # iter \/ rm' = can_trade(rm).rm

Restarted == env'.restarts = env.restarts + 1

OpensDone ==
    {i \in 1..Len(calls) :
        calls[i].op \in {"open_long", "open_short"} /\ calls[i].ok}

\* C17: in paper mode a successful open (long or short) of notional N at
\* price P takes exactly the fee N x fee_rate out of the cash, the notional
\* staying in it, and adds N / P to the holdings of the instrument and side.
C17_OpenChargesFeeOnly ==
    mode = "paper" =>
        /\ \A pair \in AllPairs, side \in Sides, amount_usdt \in OpenAmounts,
              io \in IOs :
              LET r == OpenCalled(pair, side, amount_usdt, io)
              IN  r.ok =>
                     /\ r.price > 0
                     /\ r.ex.usdt = paper.usdt - Fee(amount_usdt)
                     /\ r.ex.holdings =
                           [paper.holdings EXCEPT ![HoldKey(pair, side)] =
                                @ + (amount_usdt \div r.price)]
        /\ \A i \in OpensDone :
              LET c    == calls[i]
                  P    == c.post.positions[c.pair].entry_price
                  paid == c.pre.usdt - c.post.usdt
              IN  /\ c.post.holdings =
                        [c.pre.holdings EXCEPT ![HoldKey(c.pair, c.side)] =
                             @ + c.quantity]
                  /\ paid >= Fee(c.quantity * P)
                  /\ paid <= Fee(c.quantity * P + P - 1)

\* the paper bot has opened a short: the fee has left the cash, the coins
\* are in the holdings
C17_Witness ==
    /\ mode = "paper"
    /\ \E i \in OpensDone :
          /\ calls[i].op = "open_short"
          /\ calls[i].quantity > 0
          /\ calls[i].post.usdt < calls[i].pre.usdt
          /\ calls[i].post.usdt > calls[i].pre.usdt - OKX_MIN_ORDER_USDT
          /\ calls[i].post.holdings[HoldKey(calls[i].pair, "short")] =
                calls[i].quantity

C29_AsWritten ==
    [][prog = "bot" => trades \subseteq trades']_vars

\* C30 (as written): get_candles never returns a series with fewer than
\* the minimum of 50 candles or containing NaN rows.
C30_AsWritten ==
    (prog = "candles" /\ ~d_call.returned.none) =>
        /\ d_call.returned.rows >= MIN_CANDLES_FOR_INDICATORS
        /\ d_call.returned.nan = 0

\* the pairs whose position is the same one before and after this step
SamePositions ==
    {p \in DOMAIN positions \cap DOMAIN positions' :
        positions'[p].trade_id = positions[p].trade_id}

\* C31: before each exit evaluation the peak price of the position has
\* been updated with the latest price: for a long it is at least the entry
\* price and the price just evaluated and never decreases, for a short at
\* most those and never increases.
C31_PeakIsHighWaterMark ==
    [][prog = "bot" =>
          /\ \A p \in DOMAIN positions' :
                IF positions'[p].position_side = "long"
                THEN positions'[p].peak_price >= positions'[p].entry_price
                ELSE positions'[p].peak_price <= positions'[p].entry_price
          /\ \A p \in SamePositions :
                IF positions[p].position_side = "long"
                THEN positions'[p].peak_price >= positions[p].peak_price
                ELSE positions'[p].peak_price <= positions[p].peak_price
          /\ \A p \in SamePositions \cap (iter'.evaluated \ iter.evaluated) :
                IF positions[p].position_side = "long"
                THEN positions'[p].peak_price >= Price(p)
                ELSE positions'[p].peak_price <= Price(p)]_vars

\* a long position has just been evaluated at a price above its entry and
\* its peak has followed
C31_Witness ==
    \E p \in DOMAIN positions \cap iter.evaluated :
        /\ positions[p].position_side = "long"
        /\ positions[p].peak_price > positions[p].entry_price
        /\ positions[p].peak_price = Price(p)

\* the close orders the reconciler sent in this step
SyncCloses == {i \in 1..Len(calls') : calls'[i].op = "close_unmanaged"}

\* C35: if fetching the exchange's open positions fails, the reconciler
\* evicts nothing from PositionTracker and issues no close order in that
\* cycle
C35_AsWritten ==
    [][(SyncStep /\ ~iter'.fetch_ok) =>
            (positions' = positions /\ SyncCloses = {})]_vars

\* C36: when PositionTracker and the authoritative source already hold the
\* same positions, a reconciler cycle is a no-op: it evicts nothing from
\* PositionTracker and issues no close order, in paper mode too, for spot
\* as well as derivative instrument identifiers
C36_AsWritten ==
    [][(SyncStep /\ iter'.fetch_ok /\ PTView = SourceView) =>
            (positions' = positions /\ SyncCloses = {})]_vars

\* the entries opened for pair, as the trade table records them
EntriesOf(pair) == {t \in trades : t.pair = pair}

\* C39: for a given pair and side at most one entry signal fires and at most
\* one entry is opened per candle.  Where no candle closes (SpecOps) every
\* check of a behaviour is made on the same candle, so the trade table holds
\* at most one entry per side the pair can be traded on: long only for a
\* spot pair, long and short for a swap pair
C39_AsWritten ==
    prog = "bot" =>
        \A pair \in Pairs :
            Cardinality(EntriesOf(pair)) <= (IF IsSwap(pair) THEN 2 ELSE 1)
(***************************************************************************)
(* Properties of the CryptoAI engine's scheduler and of the executors.     *)
(***************************************************************************)

\* C3 (as written): once the PnL realized today is at or below
\* daily_loss_limit x portfolio value, the buy job dispatches no BUY order
\* for the rest of the day.
C3_AsWritten ==
    (e_job.id = "execute_buy" /\ e_job.limit_hit) => e_job.orders = <<>>

\* C4 (as written): while paused the buy job dispatches no order, and the
\* data-collection and risk-check jobs keep doing their work.
C4_AsWritten ==
    e_job.paused =>
        /\ e_job.id = "execute_buy" => e_job.orders = <<>>
        /\ e_job.id \in {"collect_data", "risk_check"} => e_job.ran

\* C5: an open, buy, sell or close of either executor that returns a
\* failure leaves the local state (simulated cash, holdings, the wallet and
\* position files, position records, PT) exactly as it was before the call.
C5_FailureLeavesLocalState ==
    /\ \A i \in 1..Len(calls) :
          ~calls[i].ok => calls[i].pre = calls[i].post
    /\ \A i \in 1..Len(e_job.orders) :
          ~e_job.orders[i].ok => e_job.orders[i].pre = e_job.orders[i].post

\* a close failed while PT held the position and the wallet its coins
C5_Witness ==
    \E i \in 1..Len(calls) :
        /\ ~calls[i].ok
        /\ calls[i].op = "close"
        /\ calls[i].pair \in DOMAIN calls[i].pre.positions
        /\ calls[i].pre.usdt # InitialPaperBalance
        /\ calls[i].quantity > 0


\* the actions the last risk-check tick produced for the position of s
ActionsFor(s) ==
    {i \in 1..Len(e_job.actions) : e_job.actions[i].symbol = s}

\* C13 (as written): on every risk-check tick exactly one action (possibly
\* HOLD) is produced for each open position: none is skipped and none gets
\* two.
C13_AsWritten ==
    e_job.id = "risk_check" =>
        \A s \in e_job.open : Cardinality(ActionsFor(s)) = 1

\* C18 (as written): a simulated open is rejected, leaving cash and
\* holdings unchanged, whenever the available cash is less than notional +
\* fee: open_long / open_short of the paper bot, execute_buy of the paper
\* engine.
C18_AsWritten ==
    /\ (prog = "bot" /\ mode = "paper") =>
          \A pair \in AllPairs, side \in Sides, amount_usdt \in OpenAmounts,
             io \in IOs :
             paper.usdt < amount_usdt + Fee(amount_usdt) =>
                LET r == OpenCalled(pair, side, amount_usdt, io)
                IN  /\ ~r.ok
                    /\ r.ex.usdt = paper.usdt
                    /\ r.ex.holdings = paper.holdings
    /\ (prog = "engine" /\ is_paper_mode) =>
          \A symbol \in Coins, amount \in BuyAmounts,
             order_type \in {"LIMIT", "MARKET"},
             limit_price \in BuyLimitPrices, io \in EngineOrderIOs :
             e_balance < amount + EngineFee(amount) =>
                LET r == execute_buy(Db, symbol, amount, order_type,
                                     limit_price, io)
                IN  /\ ~r.success
                    /\ r.db.balance = e_balance
                    /\ r.db.positions = e_positions

\* the closes of the last handler of the bot that succeeded at the entry
\* price of their position
FlatCloses ==
    {i \in 1..Len(calls) :
        /\ calls[i].op = "close"
        /\ calls[i].ok
        /\ calls[i].pre.positions[calls[i].pair].entry_price = Price(calls[i].pair)}

C20_AsWritten ==
    /\ prog = "bot" =>
          \A pair \in AllPairs, side \in Sides, io \in IOs :
             /\ \A amount_usdt \in OpenAmounts :
                   (amount_usdt < OKX_MIN_ORDER_USDT
                      \/ (side = "short" /\ ~IsSwap(pair))) =>
                      LET r == OpenCalled(pair, side, amount_usdt, io)
                      IN  ~r.ok /\ r.ex = Executor
             /\ \A quantity \in NoQuantities :
                   LET r == close_position(Executor, pair, quantity, side, io)
                   IN  ~r.ok /\ r.ex = Executor
    /\ prog = "engine" =>
          \A symbol \in Coins, io \in EngineOrderIOs :
             /\ \A amount \in BuyAmounts, order_type \in {"LIMIT", "MARKET"},
                   limit_price \in BuyLimitPrices :
                   (amount < MIN_ORDER_AMOUNT
                      \/ (order_type = "LIMIT" /\ limit_price = 0)) =>
                      LET r == execute_buy(Db, symbol, amount, order_type,
                                           limit_price, io)
                      IN  ~r.success /\ r.db = Db
             /\ \A volume \in NoQuantities :
                   LET r == execute_sell(Db, symbol, volume, io)
                   IN  ~r.success /\ r.db = Db

\* this step is a handler of the live bot whose only order, a close, ended
\* in the except clause of _live_close (the exchange raised)
LiveCloseRaised ==
    /\ prog = "bot"
    /\ mode = "live"
    /\ calls' # calls
    /\ Len(calls') = 1
    /\ calls'[1].op = "close"
    /\ ~calls'[1].ok

\* an order of the engine that ends in the except clause of execute_buy:
\* the paper price is missing, or Upbit refuses the live order
BuyRaises(order_type, limit_price, io) ==
    IF is_paper_mode THEN limit_price = 0 /\ ~io.fetch_ok
    ELSE io.outcome = "rejected"

\* C21 (as written): whenever an exception is caught inside an order
\* operation of an executor, the executor writes a failed-order record and
\* returns a failure; no exception reaches the caller.
C21_AsWritten ==
    [][/\ LiveCloseRaised => trades' # trades
       /\ prog = "engine" =>
             \A symbol \in Coins, order_type \in {"LIMIT", "MARKET"},
                limit_price \in BuyLimitPrices, io \in EngineOrderIOs :
                (BuyRaises(order_type, limit_price, io)
                   /\ ~(order_type = "LIMIT" /\ limit_price = 0)) =>
                   LET r == execute_buy(Db, symbol, MIN_ORDER_AMOUNT,
                                        order_type, limit_price, io)
                   IN  /\ ~r.success
                       /\ Len(r.db.trades) = Len(e_trades) + 1
                       /\ r.db.trades[Len(r.db.trades)].status = "FAILED"]_vars

\* C22 (as written): whenever the body of a scheduled job fails with an
\* error, that job's error counter is incremented and a notification is
\* emitted (the scheduler keeps running: the next trigger stays enabled).
C22_AsWritten ==
    e_job.failed => (e_job.errors = 1 /\ e_job.alerted)

\* the symbols the last job sent an order for, filled or not
OrderedSymbols ==
    {e_job.orders[j].symbol : j \in 1..Len(e_job.orders)}

\* C23 (as written): within one job run an error while processing one
\* instrument never prevents the remaining instruments from being
\* processed: every position the risk check decided to sell gets its sell
\* order in that run.
C23_AsWritten ==
    e_job.id = "risk_check" =>
        \A i \in 1..Len(e_job.actions) :
            e_job.actions[i].action
               \in {"STOP_LOSS", "TAKE_PROFIT", "TRAILING_STOP"} =>
               e_job.actions[i].symbol \in OrderedSymbols

\* a thread is inside its wallet update: between its first access to the
\* cash and its last write of the holdings
InWallet(t) == t.pc \notin {"called", "done"}

\* C24 (as written): every path that mutates the simulated cash balance or
\* the holdings does so under the single wallet mutex: the wallet updates
\* of two jobs running at the same time never interleave, and no update of
\* the balance is lost.
C24_AsWritten ==
    prog = "threads" =>
        /\ ~(InWallet(t_buy) /\ InWallet(t_sell))
        /\ (t_buy.pc = "done" /\ t_sell.pc = "done") =>
              e_balance = t_start.balance - t_buy.amount + t_sell.total

\* what the positions and the volume sold are when the two orders run one
\* after the other: the buy first, or the sell first
SerialOutcomes ==
    LET io     == [fetch_ok |-> TRUE, outcome |-> "filled"]
        Buy(d) == execute_buy(d, t_buy.symbol, t_buy.amount,
                              IF t_buy.limit_price = 0 THEN "MARKET"
                              ELSE "LIMIT",
                              t_buy.limit_price, io).db
        Sell(d) == execute_sell(d, t_sell.symbol,
                                VolumeOf(d.positions, t_sell.symbol), io).db
    IN  {[positions |-> Sell(Buy(t_start)).positions,
          sold |-> VolumeOf(Buy(t_start).positions, t_sell.symbol)],
         [positions |-> Buy(Sell(t_start)).positions,
          sold |-> VolumeOf(t_start.positions, t_sell.symbol)]}

\* C25 (as written): position records have a single writer: a
\* risk-triggered sell and a buy of the same instrument running in two
\* jobs cannot overwrite or erase each other's position update, so the
\* positions left and the volume sold are those of the two orders run one
\* after the other.
C25_AsWritten ==
    (prog = "threads" /\ t_buy.pc = "done" /\ t_sell.pc = "done") =>
        [positions |-> e_positions, sold |-> t_sell.volume]
            \in SerialOutcomes

\* the cash _job_execute_buy hands to allocate
AvailableKrw == IF is_paper_mode THEN e_balance ELSE UpbitKrw

\* C27 (as written): for every allocate call the sum of the returned
\* allocations' amounts is at most (1 - reserve_ratio) x available cash
\* (reserve_ratio 10 %).
C27_AsWritten ==
    prog = "engine" =>
        \A signals \in [Coins -> Signals] :
            LET made == allocate(AvailableKrw, buy_candidates(signals),
                                 signals, e_market)
            IN  10 * SumSeq([i \in 1..Len(made) |->
                               made[i].allocation_amount])
                   <= 9 * AvailableKrw

\* C28 (as written): every allocation returned by the allocator has a
\* weight within [min_pct, max_pct] = [10 %, 50 %].
C28_AsWritten ==
    prog = "engine" =>
        \A signals \in [Coins -> Signals] :
            LET made == allocate(AvailableKrw, buy_candidates(signals),
                                 signals, e_market)
            IN  \A i \in 1..Len(made) :
                    /\ 10 * made[i].weight[1] >= made[i].weight[2]
                    /\ 10 * made[i].weight[1] <= 5 * made[i].weight[2]

\* C37: the simulated cash balance never goes below zero after any open,
\* buy, close or realized-PnL posting, in the bot's paper wallet and in the
\* engine's paper account
C37_AsWritten == paper.usdt >= 0 /\ e_balance >= 0

\* the average buy price the db records for symbol
AvgPriceOf(listed, symbol) ==
    LET found == SelectSeq(listed, LAMBDA pos : pos.symbol = symbol)
    IN  IF found = <<>> THEN 0 ELSE found[1].avg_buy_price

\* C38: when a buy fills for a coin that already has an open position, the
\* recorded volume becomes the old volume plus the filled volume and the
\* average buy price the volume-weighted average of the two (to the unit)
C38_AsWritten ==
    prog = "engine" =>
        \A symbol \in Coins, amount \in BuyAmounts,
           order_type \in {"LIMIT", "MARKET"},
           limit_price \in BuyLimitPrices, io \in EngineOrderIOs :
           LET held   == VolumeOf(e_positions, symbol)
               paid   == AvgPriceOf(e_positions, symbol)
               r      == execute_buy(Db, symbol, amount, order_type,
                                     limit_price, io)
               volume == VolumeOf(r.db.positions, symbol)
               avg    == AvgPriceOf(r.db.positions, symbol)
               cost   == paid * held + r.price * r.volume
           IN  (held > 0 /\ r.success) =>
                   /\ volume = held + r.volume
                   /\ avg * volume <= cost
                   /\ cost < (avg + 1) * volume
(***************************************************************************)
(* Properties of the rule evaluation.                                      *)
(***************************************************************************)

\* the drawn input, read independently of the operators above
XEntry == x_position.entry_price

XClose == x_candle.close

XStage == x_position.tp_stage_hit

XLong == x_position.position_side = "long"

XNum == IF XLong THEN XClose - XEntry ELSE XEntry - XClose

XPeak ==
    IF XLong
    THEN (IF XClose > x_position.peak_price THEN XClose ELSE x_position.peak_price)
    ELSE (IF XClose < x_position.peak_price THEN XClose ELSE x_position.peak_price)

XFixedStop == XNum * 1000 <= -10 * XEntry

XDynamicStop ==
    IF XLong
    THEN XClose < x_candle.recent_low \/ XClose * 100 < XEntry * 98
    ELSE XClose > x_candle.recent_high \/ XClose * 100 > XEntry * 102

XTrailing ==
    /\ XStage >= 1
    /\ (IF XLong THEN XPeak - XClose ELSE XClose - XPeak) * 1000 >= 4 * XPeak

XEmaExit ==
    /\ XNum < 0
    /\ \/ XLong /\ x_candle.ema_cross = -1
       \/ ~XLong /\ x_candle.ema_cross = 1

XMaxHold == x_hold >= 60 /\ XNum <= 0

\* the ordered rule list of the bot: <<rule matches, reason, quantity_pct>>
XRules ==
    << <<XFixedStop, "SL", 100>>,
       <<XDynamicStop, "SL", 100>>,
       <<XStage < 1 /\ XNum * 1000 >= 8 * XEntry, "TP1", 30>>,
       <<XStage < 2 /\ XNum * 1000 >= 15 * XEntry, "TP2", 30>>,
       <<XNum * 1000 >= 25 * XEntry, "TP3", 100>>,
       <<XTrailing, "Trailing", 100>>,
       <<XEmaExit, "EMA", 100>>,
       <<XMaxHold, "Time", 100>> >>

\* the ordered rule list of the engine: <<rule matches, action>>
XEngineRules(stop_pct) ==
    << <<(XClose - XEntry) * 100 <= stop_pct * XEntry, "STOP_LOSS">>,
       <<(XClose - XEntry) * 100 >= 5 * XEntry, "TAKE_PROFIT">>,
       <<x_position.peak_price > XEntry
            /\ (x_position.peak_price - XClose) * 100 >= 2 * x_position.peak_price
            /\ XClose > XEntry, "TRAILING_STOP">>,
       <<x_hold > 72, "MAX_HOLD">> >>

FirstIndex(rules) ==
    IF \E i \in 1..Len(rules) : rules[i][1]
    THEN CHOOSE i \in 1..Len(rules) :
            rules[i][1] /\ \A j \in 1..(i - 1) : ~rules[j][1]
    ELSE 0

XBotFirstMatch ==
    LET i == FirstIndex(XRules)
    IN  IF i = 0 THEN [signal_type |-> "hold", reason |-> "hold", quantity_pct |-> 100]
        ELSE [signal_type |-> "exit", reason |-> XRules[i][2],
              quantity_pct |-> XRules[i][3]]

XEngineFirstMatch(stop_pct) ==
    LET i == FirstIndex(XEngineRules(stop_pct))
    IN  IF i = 0 THEN "HOLD" ELSE XEngineRules(stop_pct)[i][2]

\* C9 (as written): both evaluations return the action of the first matching
\* rule in the fixed order, and a position whose PnL% <= -1.0% always gets
\* the stop-loss action.
C9_AsWritten ==
    /\ x_signal # NoSignal =>
          /\ x_signal = XBotFirstMatch
          /\ (XFixedStop => x_signal.reason = "SL")
    /\ x_action # NoAction =>
          /\ x_action = XEngineFirstMatch(-3)
          /\ (XFixedStop => x_action = "STOP_LOSS")

XNoStop == ~XFixedStop /\ ~XDynamicStop

\* C10 (as written): with PnL% >= +2.5% and no stop rule matched the bot's
\* evaluation returns the take-profit with quantity_pct = 1.0 whatever
\* tp_stage is.
C10_AsWritten ==
    (x_signal # NoSignal /\ XNoStop /\ XNum * 1000 >= 25 * XEntry)
        => (x_signal.reason \in {"TP1", "TP2", "TP3"}
            /\ x_signal.quantity_pct = 100)


\* the example of C11: a long entered at 1000 with tp_stage 1 whose price
\* fell from a peak of 1020 to 1015 (entry 100, peak 102.0, close 101.5)
XPullbackExample ==
    /\ XLong
    /\ XEntry = 1000
    /\ XStage = 1
    /\ x_position.peak_price = 1020
    /\ XClose = 1015
    /\ x_candle.recent_low <= 1000

\* C11 (as written): for a long with entry 100 and tp_stage 1 whose price
\* falls from a peak of 102.0 to 101.5 the evaluation returns the trailing
\* stop with quantity_pct = 1.0.
C11_AsWritten ==
    (x_signal # NoSignal /\ XPullbackExample)
        => (x_signal.signal_type = "exit"
            /\ x_signal.reason = "Trailing"
            /\ x_signal.quantity_pct = 100)

(***************************************************************************)
(* Claims about the scorer (SpecScoring).                                  *)
(***************************************************************************)

\* the ScoringResult of the last score_coin call, when it returned one
Scored == prog = "scoring" /\ s_call.kind = "ScoringResult"

\* C32: for every ScoringResult produced, each of the five sub-scores and
\* the total lie in [0, 100]
C32_ScoresInRange ==
    Scored =>
        \A x \in {s_call.technical_score, s_call.momentum_score,
                  s_call.volatility_score, s_call.volume_score,
                  s_call.sentiment_score, s_call.total_score} :
            0 <= x /\ x <= 10000

\* a result whose technical and momentum sums went above 100 before _clamp
C32_Witness ==
    /\ Scored
    /\ s_call.raw[1] > Points(100)
    /\ s_call.raw[2] > Points(100)
    /\ s_call.technical_score = 10000

\* C33: for every ScoringResult the signal matches the reported total:
\* total >= 80 gives STRONG_BUY, 70 <= total < 80 gives BUY, total <= 30
\* gives SELL, anything else HOLD, the totals 80.0, 70.0 and 30.0 included
C33_AsWritten ==
    Scored =>
        s_call.signal =
            IF s_call.total_score >= 8000 THEN "STRONG_BUY"
            ELSE IF s_call.total_score >= 7000 THEN "BUY"
            ELSE IF s_call.total_score <= 3000 THEN "SELL"
            ELSE "HOLD"

\* C34: in the technical sub-score an RSI of exactly 30.0 contributes +20
\* and an RSI of exactly 85.0 contributes -30
C34_AsWritten ==
    Scored =>
        /\ s_call.details.value = 300 =>
               s_call.details.contribution = Points(20)
        /\ s_call.details.value = 850 =>
               s_call.details.contribution = Points(-30)
====
